---- MODULE Spec2Model ----
(***************************************************************************)
(* T1D-AI prediction-and-decay engine.                                     *)
(*                                                                         *)
(* Fixed-point conventions (Python floats are modelled as exact rationals  *)
(* on a decimal grid; ties of round() are resolved half-to-even as Python  *)
(* does):                                                                  *)
(*   glucose, target, sensitivity (isf)  whole mg/dL, mg/dL per unit       *)
(*   insulin / IOB                        hundredths of a unit   (..100)   *)
(*   carbs / COB                          tenths of a gram       (..10)    *)
(*   time                                 whole minutes                    *)
(***************************************************************************)
EXTENDS Integers, Sequences, FiniteSets, TLC

VARIABLES
    doseIn,     \* arguments of the last dose-correction call
    doseOut,    \* what that call returned (or that it raised)
    decayIn,    \* arguments of the last calculate_iob / calculate_cob call
    decayOut,   \* what that call returned
    glucoseBuffer,      \* FeatureEngineer._glucose_buffer
    treatmentBuffer,    \* FeatureEngineer._treatment_buffer
    pushed,     \* readings pushed so far, and how many had no usable timestamp
    fsIn,       \* the get_feature_sequence call that has just returned, if any
    fsOut,      \* what it returned
    env,        \* the models directory and the pandas build the service runs on
    service,    \* PredictionService: _initialized, _bg_service, _isf_service
    predictIn,  \* arguments of the last PredictionService.predict call
    predictOut, \* the PredictionResult it returned (or that it raised)
    isfOut,     \* the last sensitivity produced outside predict, and by what
    linIn,      \* arguments of the last LinearPredictor call
    linOut,     \* what that call returned (or that it raised)
    tracker,    \* AccuracyTracker: _predictions, error pools, win counts
    trackerIn,  \* the last call made on the tracker
    clock,      \* datetime.utcnow(), in minutes
    requests    \* the requests in flight on the event loop

doseVars    == <<doseIn, doseOut>>
decayVars   == <<decayIn, decayOut>>
bufferVars  == <<glucoseBuffer, treatmentBuffer, pushed>>
featureVars == <<glucoseBuffer, treatmentBuffer, pushed, fsIn, fsOut>>
serviceVars == <<env, service, predictIn, predictOut>>
linearVars  == <<linIn, linOut>>
trackerVars == <<tracker, trackerIn, clock, requests>>
\* The variables of the components specified after the prediction service.
otherVars   == <<isfOut, linearVars, trackerVars>>

vars == <<doseIn, doseOut, decayIn, decayOut,
          glucoseBuffer, treatmentBuffer, pushed, fsIn, fsOut,
          env, service, predictIn, predictOut,
          isfOut, linIn, linOut, tracker, trackerIn, clock, requests>>

----------------------------------------------------------------------------
(* Arithmetic helpers                                                      *)

Max(a, b) == IF a >= b THEN a ELSE b
Min(a, b) == IF a <= b THEN a ELSE b

\* Python round(): n/d rounded to the nearest integer, ties to even (d # 0).
RoundHalfEven(n, d) ==
    LET nn == IF d < 0 THEN 0 - n ELSE n
        dd == IF d < 0 THEN 0 - d ELSE d
        q  == nn \div dd
        r  == nn % dd
    IN  IF 2 * r < dd THEN q
        ELSE IF 2 * r > dd THEN q + 1
        ELSE IF q % 2 = 0 THEN q ELSE q + 1

----------------------------------------------------------------------------
(* DecayEngine: dose correction                                            *)

carb_bg_factor == 4

\* Bounded inputs of the dose-correction entry points.
DoseBgValues     == {80, 100, 120, 200}
DoseTargetValues == {100, 120}
DoseIsfValues    == {0 - 50, 0, 10, 50}
DoseIob100Values == {0, 1, 100, 200}
DoseCob10Values  == {0, 1, 250}

NoDoseIn  == [entry |-> "none", current_bg |-> 0, target_bg |-> 0, isf |-> 0,
              iob100 |-> 0, cob10 |-> 0]
NoDoseOut == [raised |-> FALSE, dose100 |-> 0, effective100 |-> 0,
              hasRaw |-> FALSE, raw100 |-> 0]

\* current_bg + cob * carb_factor - iob * isf, in hundredths of a mg/dL.
EffectiveBg100(current_bg, isf, iob100, cob10, factor) ==
    current_bg * 100 + cob10 * factor * 10 - iob100 * isf

\* IOBCOBService.calculate_dose_recommendation -> (dose, effective_bg)
calculate_dose_recommendation(current_bg, target_bg, isf, iob100, cob10) ==
    IF isf <= 0
    THEN [raised |-> FALSE, dose100 |-> 0, effective100 |-> current_bg * 100,
          hasRaw |-> FALSE, raw100 |-> 0]
    ELSE LET eff == RoundHalfEven(
                        EffectiveBg100(current_bg, isf, iob100, cob10, carb_bg_factor),
                        100)
             correction_needed == eff - target_bg
         IN  IF correction_needed <= 0
             THEN [raised |-> FALSE, dose100 |-> 0, effective100 |-> eff * 100,
                   hasRaw |-> FALSE, raw100 |-> 0]
             ELSE [raised |-> FALSE,
                   dose100 |-> Max(0, RoundHalfEven(correction_needed * 100, isf)),
                   effective100 |-> eff * 100,
                   hasRaw |-> FALSE, raw100 |-> 0]

\* calculate_dose_correction without the max(0.0, raw_correction) floor.
DoseCorrectionNoFloor(current_bg, target_bg, isf, iob100, cob10) ==
    LET eff100 == EffectiveBg100(current_bg, isf, iob100, cob10, carb_bg_factor)
    IN  IF isf = 0
        THEN [raised |-> TRUE, dose100 |-> 0, effective100 |-> 0,
              hasRaw |-> FALSE, raw100 |-> 0]
        ELSE LET raw100 == RoundHalfEven(eff100 - target_bg * 100, isf)
             IN  [raised |-> FALSE,
                  dose100 |-> raw100,
                  effective100 |-> RoundHalfEven(eff100, 10) * 10,
                  hasRaw |-> TRUE, raw100 |-> raw100]

\* PredictionService.calculate_dose_correction -> dict; cob_ratio defaults to 4.0.
\* The division by isf is unguarded: isf = 0 raises ZeroDivisionError.
calculate_dose_correction(current_bg, target_bg, isf, iob100, cob10) ==
    LET eff100 == EffectiveBg100(current_bg, isf, iob100, cob10, carb_bg_factor)
    IN  IF isf = 0
        THEN [raised |-> TRUE, dose100 |-> 0, effective100 |-> 0,
              hasRaw |-> FALSE, raw100 |-> 0]
        ELSE LET raw100 == RoundHalfEven(eff100 - target_bg * 100, isf)
             IN  [raised |-> FALSE,
                  dose100 |-> Max(0, raw100),
                  effective100 |-> RoundHalfEven(eff100, 10) * 10,
                  hasRaw |-> TRUE, raw100 |-> raw100]

\* The arguments a dose-correction call may be given.
DoseInputs ==
    [entry : {"none"}, current_bg : DoseBgValues, target_bg : DoseTargetValues,
     isf : DoseIsfValues, iob100 : DoseIob100Values, cob10 : DoseCob10Values]

\* A call of IOBCOBService.calculate_dose_recommendation; the target is the
\* service's configured target_bg.
CalculateDoseRecommendation ==
    /\ doseIn.entry = "none"
    /\ doseIn' = [doseIn EXCEPT !.entry = "iobcob"]
    /\ doseOut' = calculate_dose_recommendation(
                      doseIn.current_bg, doseIn.target_bg, doseIn.isf,
                      doseIn.iob100, doseIn.cob10)
    /\ UNCHANGED <<otherVars, decayVars, featureVars, serviceVars>>

\* A call of PredictionService.calculate_dose_correction.
CalculateDoseCorrection ==
    /\ doseIn.entry = "none"
    /\ doseIn' = [doseIn EXCEPT !.entry = "predsvc"]
    /\ doseOut' = calculate_dose_correction(
                      doseIn.current_bg, doseIn.target_bg, doseIn.isf,
                      doseIn.iob100, doseIn.cob10)
    /\ UNCHANGED <<otherVars, decayVars, featureVars, serviceVars>>

----------------------------------------------------------------------------
(* DecayEngine: IOB / COB                                                  *)

insulin_duration_min  == 180
insulin_half_life_min == 81
carb_duration_min     == 180
carb_half_life_min    == 45

\* 0.5 ** (m / 81) for m = 0..80, in ten-thousandths.
InsulinDecayTable ==
    << 10000, 9915, 9830, 9747, 9663, 9581, 9500, 9419, 9338,
       9259, 9180, 9102, 9024, 8947, 8871, 8795, 8720, 8646,
       8572, 8499, 8427, 8355, 8284, 8213, 8143, 8074, 8005,
       7937, 7869, 7802, 7736, 7670, 7605, 7540, 7476, 7412,
       7349, 7286, 7224, 7162, 7101, 7041, 6981, 6921, 6862,
       6804, 6746, 6688, 6632, 6575, 6519, 6463, 6408, 6354,
       6300, 6246, 6193, 6140, 6088, 6036, 5984, 5933, 5883,
       5833, 5783, 5734, 5685, 5636, 5588, 5541, 5494, 5447,
       5400, 5354, 5309, 5263, 5219, 5174, 5130, 5086, 5043 >>

\* 0.5 ** (m / 45) for m = 0..44, in ten-thousandths.
CarbDecayTable ==
    << 10000, 9847, 9697, 9548, 9402, 9259, 9117, 8978, 8841,
       8706, 8572, 8441, 8312, 8185, 8060, 7937, 7816, 7696,
       7579, 7463, 7349, 7236, 7126, 7017, 6910, 6804, 6700,
       6598, 6497, 6397, 6300, 6203, 6108, 6015, 5923, 5833,
       5743, 5656, 5569, 5484, 5400, 5318, 5236, 5156, 5078 >>

RECURSIVE Pow2(_)
Pow2(n) == IF n <= 0 THEN 1 ELSE 2 * Pow2(n - 1)

\* A decay factor that starts again at 1 after every half-life.
DecayNumNoHalving(table, half_life, elapsed, maxHalvings) ==
    table[(elapsed % half_life) + 1] * Pow2(maxHalvings)

\* decay_factor = 0.5 ** (elapsed / half_life) as the fraction
\* DecayNum / (10000 * 2^halvings), the numerator scaled to 2^maxHalvings.
DecayNum(table, half_life, elapsed, maxHalvings) ==
    table[(elapsed % half_life) + 1] * Pow2(maxHalvings - (elapsed \div half_life))

RECURSIVE SumSeq(_)
SumSeq(s) == IF s = <<>> THEN 0 ELSE Head(s) + SumSeq(Tail(s))

\* Bounded inputs of calculate_iob / calculate_cob.
MaxTreatments == 2
TreatmentTimes    == {0, 100}
TreatmentInsulins == {0, 100, 400}      \* 0 stands for None / 0.0
TreatmentCarbs    == {0, 500}
EvalTimes == {0 - 10, 0, 45, 81, 100, 180, 181, 280, 281}

DecayTreatments ==
    [ts : TreatmentTimes, insulin100 : TreatmentInsulins, carbs10 : TreatmentCarbs]

TreatmentLists ==
    UNION {[1..n -> DecayTreatments] : n \in 0..MaxTreatments}

NoDecayIn  == [kind |-> "none", treatments |-> <<>>, at_time |-> 0]
NoDecayOut == [value |-> 0]

\* The loop of calculate_iob / calculate_cob over the filtered treatments.
DecayTotal(treatments, amounts, at_time, duration, half_life, table) ==
    LET halvings == duration \div half_life
        qualifies(i) == amounts[i] > 0
        elapsed(i)   == at_time - treatments[i].ts
        counted == {i \in DOMAIN treatments :
                        /\ qualifies(i)
                        /\ 0 <= elapsed(i)
                        /\ elapsed(i) <= duration}
        contrib == [i \in DOMAIN treatments |->
                        IF i \in counted
                        THEN amounts[i]
                             * DecayNum(table, half_life, elapsed(i), halvings)
                        ELSE 0]
    IN  [value |-> RoundHalfEven(SumSeq(contrib), 10000 * Pow2(halvings))]

InsulinOf(treatments) == [i \in DOMAIN treatments |-> treatments[i].insulin100]
CarbsOf(treatments) == [i \in DOMAIN treatments |-> treatments[i].carbs10]

\* calculate_iob with the window test written elapsed < duration.
CalculateIobOpenCutoff(treatments, at_time) ==
    IF treatments = <<>> THEN [value |-> 0]
    ELSE DecayTotal(treatments, InsulinOf(treatments), at_time,
                    insulin_duration_min - 1, insulin_half_life_min,
                    InsulinDecayTable)

\* calculate_iob decaying insulin with the half-life of carbs.
CalculateIobCarbHalfLife(treatments, at_time) ==
    IF treatments = <<>> THEN [value |-> 0]
    ELSE DecayTotal(treatments, InsulinOf(treatments), at_time,
                    insulin_duration_min, carb_half_life_min, CarbDecayTable)

\* IOBCOBService.calculate_iob: round(total_iob, 2)
calculate_iob(treatments, at_time) ==
    IF treatments = <<>> THEN [value |-> 0]
    ELSE DecayTotal(treatments, InsulinOf(treatments), at_time,
                    insulin_duration_min, insulin_half_life_min,
                    InsulinDecayTable)

\* IOBCOBService.calculate_cob: round(total_cob, 1)
calculate_cob(treatments, at_time) ==
    IF treatments = <<>> THEN [value |-> 0]
    ELSE DecayTotal(treatments, CarbsOf(treatments), at_time,
                    carb_duration_min, carb_half_life_min, CarbDecayTable)

\* The arguments a calculate_iob / calculate_cob call may be given.
DecayInputs == [kind : {"none"}, treatments : TreatmentLists, at_time : EvalTimes]

CalculateIob ==
    /\ decayIn.kind = "none"
    /\ decayIn' = [decayIn EXCEPT !.kind = "iob"]
    /\ decayOut' = calculate_iob(decayIn.treatments, decayIn.at_time)
    /\ UNCHANGED <<otherVars, doseVars, featureVars, serviceVars>>

CalculateCob ==
    /\ decayIn.kind = "none"
    /\ decayIn' = [decayIn EXCEPT !.kind = "cob"]
    /\ decayOut' = calculate_cob(decayIn.treatments, decayIn.at_time)
    /\ UNCHANGED <<otherVars, doseVars, featureVars, serviceVars>>

\* calculate_iob called again on the same treatments at a later at_time.
MaxEvalTime == 290
CalculateIobLater ==
    /\ \E step \in {1, 45} :
           /\ decayIn.at_time + step <= MaxEvalTime
           /\ decayIn' = [decayIn EXCEPT !.kind = "iob", !.at_time = @ + step]
           /\ decayOut' = calculate_iob(decayIn.treatments,
                                        decayIn.at_time + step)
    /\ UNCHANGED <<otherVars, doseVars, featureVars, serviceVars>>

----------------------------------------------------------------------------
(* FeatureBuffer: ml/feature_engineering.py                                *)
(*                                                                         *)
(* A glucose reading is [ts, value, trend]; a treatment is [ts, type,      *)
(* insulin100, carbs10, protein10, fat10].  ts = NoTs is a timestamp that  *)
(* pd.to_datetime(..., errors="coerce") turns into NaT; an amount of       *)
(* NoAmount is a field that is None.                                       *)

SAMPLING_MIN == 5
SEQ_LENGTH == 24
\* FeatureEngineer.__init__ defaults: history_min, and the buffer capacity
\* max_readings = history_min // sampling_min.
default_history_min == 180
MaxReadings(history_min) == history_min \div SAMPLING_MIN
NoTs == 0 - 1
NoAmount == 0 - 1

BG_FEATURE_COLUMNS ==
    << "value", "trend", "carbs", "protein", "fat", "iob",
       "roll30_mean", "roll30_std", "roll90_mean", "roll90_std",
       "secs_since_start",
       "min5_sin", "min5_cos", "min15_sin", "min15_cos",
       "hour_sin", "hour_cos", "dow_sin", "dow_cos",
       "mon_sin", "mon_cos", "doy_sin", "doy_cos",
       "poly0", "poly1", "poly2" >>

SeqToSet(s) == {s[i] : i \in DOMAIN s}

\* The columns of the frame engineer_features returns.
EngineeredColumns ==
    {"timestamp", "value", "trend", "carbs", "protein", "fat", "insulin", "iob",
     "secs_since_start", "minute", "hour", "day_of_week", "month", "day_of_year",
     "min5_sin", "min5_cos", "min15_sin", "min15_cos", "hour_sin", "hour_cos",
     "dow_sin", "dow_cos", "mon_sin", "mon_cos", "doy_sin", "doy_cos",
     "roll30_mean", "roll30_std", "roll90_mean", "roll90_std",
     "poly0", "poly1", "poly2"}

\* add_glucose_reading keeping the first max_readings instead of the last.
AddGlucoseReadingKeepsOldest(buffer, reading, max_readings) ==
    LET b == Append(buffer, reading)
    IN  IF Len(b) > max_readings THEN SubSeq(b, 1, max_readings) ELSE b

\* FeatureEngineer.add_glucose_reading: append, keep the last max_readings.
add_glucose_reading(buffer, reading, max_readings) ==
    LET b == Append(buffer, reading)
    IN  IF Len(b) > max_readings
        THEN SubSeq(b, Len(b) - max_readings + 1, Len(b))
        ELSE b

\* FeatureEngineer.add_treatment: append, then keep the treatments newer than
\* now - history_min.  The filter compares a tz-aware pandas Timestamp with the
\* naive datetime `cutoff`; where pandas refuses that comparison (tzStrict) the
\* filter raises on the first parseable timestamp and the buffer keeps the
\* appended, unfiltered list.  NaT > cutoff is False.
add_treatment(buffer, treatment, now, history_min, tzStrict) ==
    LET b == Append(buffer, treatment)
        fresh(t) == t.ts # NoTs /\ t.ts > now - history_min
    IN  IF tzStrict /\ \E i \in DOMAIN b : b[i].ts # NoTs
        THEN [raised |-> TRUE, buffer |-> b]
        ELSE [raised |-> FALSE, buffer |-> SelectSeq(b, fresh)]

Abs(x) == IF x < 0 THEN 0 - x ELSE x

\* time_diffs.idxmin(): the first row with the smallest |ts - t| among the rows
\* whose timestamp is not NaT.
ClosestIdx(df, t) ==
    CHOOSE i \in DOMAIN df :
        /\ df[i].ts # NoTs
        /\ \A j \in DOMAIN df :
               df[j].ts # NoTs =>
                   \/ Abs(df[j].ts - t) > Abs(df[i].ts - t)
                   \/ (Abs(df[j].ts - t) = Abs(df[i].ts - t) /\ i <= j)

AmountOrZero(a) == IF a = NoAmount THEN 0 ELSE a

\* cell += amount: an absent amount is NaN where the treatments frame holds
\* numbers, and NaN stays NaN.
AddAmount(cell, a) ==
    IF cell = NoAmount \/ a = NoAmount THEN NoAmount ELSE cell + a

\* One iteration of the treatment loop of prepare_realtime_features.
AlignTreatment(df, treat) ==
    IF treat.ts = NoTs THEN df
    ELSE LET idx == ClosestIdx(df, treat.ts)
         IN  IF treat.type = "insulin" \/ AmountOrZero(treat.insulin100) > 0
             THEN [df EXCEPT ![idx].insulin100 = AddAmount(@, treat.insulin100)]
             ELSE IF treat.type = "carbs" \/ AmountOrZero(treat.carbs10) > 0
             THEN [df EXCEPT ![idx].carbs10 = AddAmount(@, treat.carbs10),
                             ![idx].protein10 = AddAmount(@, treat.protein10),
                             ![idx].fat10 = AddAmount(@, treat.fat10)]
             ELSE df

RECURSIVE AlignTreatments(_, _)
AlignTreatments(df, treatments) ==
    IF treatments = <<>> THEN df
    ELSE AlignTreatments(AlignTreatment(df, Head(treatments)), Tail(treatments))

\* A None operand met by the treatment loop: `None > 0` in the branch tests or
\* `+= None` in the additions (a field that is None in every buffered
\* treatment stays None in the frame).
TouchesNone(treatments) ==
    \E i \in DOMAIN treatments :
        LET t == treatments[i]
            allNone(f(_)) == \A j \in DOMAIN treatments : f(treatments[j]) = NoAmount
            ins(x) == x.insulin100
            crb(x) == x.carbs10
            pro(x) == x.protein10
            fat(x) == x.fat10
        IN  /\ t.ts # NoTs
            /\ \/ allNone(ins)
               \/ /\ t.type # "insulin"
                  /\ AmountOrZero(t.insulin100) = 0
                  /\ \/ allNone(crb)
                     \/ /\ (t.type = "carbs" \/ AmountOrZero(t.carbs10) > 0)
                        /\ (allNone(pro) \/ allNone(fat))

\* prepare_realtime_features: the frame of the buffered readings with the
\* treatments added to their closest reading and the iob column set to the
\* caller's iob_value (iob3600 is in 1/3600 of a unit).
prepare_realtime_features(glucose_readings, treatments, iob100) ==
    LET df0 == [i \in DOMAIN glucose_readings |->
                   [ts |-> glucose_readings[i].ts,
                    value |-> glucose_readings[i].value,
                    trend |-> glucose_readings[i].trend,
                    insulin100 |-> 0, carbs10 |-> 0, protein10 |-> 0, fat10 |-> 0,
                    iob3600 |-> 0]]
        df == AlignTreatments(df0, treatments)
    IN  [i \in DOMAIN df |-> [df[i] EXCEPT !.iob3600 = iob100 * 36]]

RECURSIVE SumOver(_, _)
SumOver(S, f) ==
    IF S = {} THEN 0
    ELSE LET x == CHOOSE y \in S : TRUE IN f[x] + SumOver(S \ {x}, f)

\* calculate_iob_for_features: linear decay over duration_min // sampling_min
\* steps; the series of values, row by row, in 1/3600 of a unit.
calculate_iob_for_features(insulin) ==
    LET decay_steps == 180 \div SAMPLING_MIN
        dosed == {idx \in DOMAIN insulin : insulin[idx] > 0}
        doses(j) == {idx \in dosed : idx <= j /\ j - idx < decay_steps}
    IN  [j \in DOMAIN insulin |->
            SumOver(doses(j), [idx \in doses(j) |->
                                  insulin[idx] * (decay_steps - (j - idx))])]

\* df.sort_values("timestamp"): the rows in timestamp order (rows of equal
\* timestamp in frame order).  rank[i] is the place of row i in that order.
SortByTs(df) ==
    LET before(i, j) == df[i].ts < df[j].ts \/ (df[i].ts = df[j].ts /\ i < j)
        rank == SubSeq([i \in DOMAIN df |->
                           Cardinality({j \in DOMAIN df : before(j, i)}) + 1],
                       1, Len(df))
    IN  IF \A i \in 1..(Len(df) - 1) : df[i].ts <= df[i + 1].ts THEN df
        ELSE [k \in DOMAIN df |-> df[CHOOSE i \in DOMAIN df : rank[i] = k]]

HasTs(row) == row.ts # NoTs

\* engineer_features: NaN amounts become 0, rows whose timestamp is NaT are
\* dropped, the rest is sorted by timestamp, the iob column is recomputed
\* from the insulin column,
\* and the time, rolling and polynomial columns are added.  An empty frame
\* has no columns.
engineer_features(df_in) ==
    IF df_in = <<>> THEN [cols |-> {}, rows |-> <<>>]
    ELSE LET kept == SelectSeq(df_in, HasTs)
         IN  IF kept = <<>> THEN [cols |-> {}, rows |-> <<>>]
             ELSE LET sorted == SortByTs(kept)
                      iob == calculate_iob_for_features(
                                 [i \in DOMAIN sorted |->
                                     AmountOrZero(sorted[i].insulin100)])
                  IN  [cols |-> EngineeredColumns,
                       rows |-> [i \in DOMAIN sorted |->
                                    [sorted[i] EXCEPT
                                        !.insulin100 = AmountOrZero(@),
                                        !.carbs10 = AmountOrZero(@),
                                        !.protein10 = AmountOrZero(@),
                                        !.fat10 = AmountOrZero(@),
                                        !.iob3600 = iob[i]]]]

NoSequence == [kind |-> "none", cols |-> <<>>, rows |-> <<>>]
RaisedSequence == [kind |-> "raised", cols |-> <<>>, rows |-> <<>>]

\* extract_feature_sequence without its length check: tail() of a short frame.
ExtractFeatureSequenceNoLengthCheck(df, feature_columns, seq_length) ==
    IF \E i \in DOMAIN feature_columns : feature_columns[i] \notin df.cols
    THEN NoSequence
    ELSE [kind |-> "seq", cols |-> feature_columns,
          rows |-> SubSeq(df.rows, Max(1, Len(df.rows) - seq_length + 1),
                          Len(df.rows))]

\* extract_feature_sequence: the last seq_length rows over feature_columns.
extract_feature_sequence(df, feature_columns, seq_length) ==
    IF Len(df.rows) < seq_length THEN NoSequence
    ELSE IF \E i \in DOMAIN feature_columns : feature_columns[i] \notin df.cols
    THEN NoSequence
    ELSE [kind |-> "seq", cols |-> feature_columns,
          rows |-> SubSeq(df.rows, Len(df.rows) - seq_length + 1, Len(df.rows))]

\* FeatureEngineer.get_feature_sequence.  pandasRaises: whether pandas raises
\* in the two places where its behaviour depends on how the frame holds the
\* data: a None operand in the treatment loop (TypeError where the frame keeps
\* None, nothing where it holds NaN), and idxmin over timestamps that are all
\* NaT.
get_feature_sequence(glucose_buffer, treatment_buffer, iob100, seq_length, pandasRaises) ==
    IF Len(glucose_buffer) < seq_length THEN NoSequence
    ELSE IF glucose_buffer = <<>> THEN NoSequence
    ELSE IF pandasRaises /\ TouchesNone(treatment_buffer)
    THEN RaisedSequence
    ELSE IF /\ \E i \in DOMAIN treatment_buffer : treatment_buffer[i].ts # NoTs
            /\ \A i \in DOMAIN glucose_buffer : glucose_buffer[i].ts = NoTs
    THEN IF pandasRaises THEN RaisedSequence ELSE NoSequence
    ELSE LET df == engineer_features(
                       prepare_realtime_features(glucose_buffer, treatment_buffer,
                                                 iob100))
         IN  IF df.rows = <<>> THEN NoSequence
             ELSE extract_feature_sequence(df, BG_FEATURE_COLUMNS, seq_length)

\* Bounds of the direct use of a FeatureEngineer, one constructed with
\* history_min = FeatureHistoryMin (a capacity of 6 readings).
FeatureHistoryMin == 30
MaxPushed == 8
MaxBadReadings == 2
MaxBufferedTreatments == 1

NoFsIn == [called |-> FALSE, iob100 |-> 0, seq_length |-> 0]

FsIobValues == {0, 250}
FsSeqLengths == {3, 5}

\* The treatments pushed into a FeatureEngineer: a bolus, a carb entry as the
\* Treatment schema dumps it (absent amounts are None), a mixed meal bolus,
\* and an entry without a usable timestamp.
FeatureTreatments ==
    { [ts |-> 22, type |-> "insulin", insulin100 |-> 200, carbs10 |-> NoAmount,
       protein10 |-> NoAmount, fat10 |-> NoAmount],
      [ts |-> 12, type |-> "carbs", insulin100 |-> NoAmount, carbs10 |-> 300,
       protein10 |-> NoAmount, fat10 |-> NoAmount],
      [ts |-> 18, type |-> "carbs", insulin100 |-> 150, carbs10 |-> 300,
       protein10 |-> 50, fat10 |-> 0],
      [ts |-> NoTs, type |-> "insulin", insulin100 |-> 100, carbs10 |-> NoAmount,
       protein10 |-> NoAmount, fat10 |-> NoAmount] }

\* The k-th reading of the stream (k = 0, 1, ...), on the 5-minute grid.
StreamReading(k, hasTs) ==
    [ts |-> IF hasTs THEN SAMPLING_MIN * k ELSE NoTs, value |-> 100 + k,
     trend |-> 0]

\* FeatureEngineer.add_glucose_reading(reading)
AddGlucoseReading ==
    /\ pushed.n < MaxPushed
    /\ \E hasTs \in BOOLEAN :
        /\ hasTs \/ pushed.bad < MaxBadReadings
        /\ glucoseBuffer' =
               add_glucose_reading(glucoseBuffer, StreamReading(pushed.n, hasTs),
                                   MaxReadings(FeatureHistoryMin))
        /\ pushed' = [n |-> pushed.n + 1,
                      bad |-> pushed.bad + (IF hasTs THEN 0 ELSE 1)]
    /\ fsIn' = NoFsIn
    /\ fsOut' = NoSequence
    /\ UNCHANGED <<otherVars, doseVars, decayVars, serviceVars, treatmentBuffer>>

\* FeatureEngineer.add_treatment(treatment), at the time of the latest reading.
AddTreatment ==
    /\ Len(treatmentBuffer) < MaxBufferedTreatments
    /\ \E t \in FeatureTreatments, tzStrict \in BOOLEAN :
        treatmentBuffer' =
            add_treatment(treatmentBuffer, t, SAMPLING_MIN * pushed.n,
                          FeatureHistoryMin, tzStrict).buffer
    /\ fsIn' = NoFsIn
    /\ fsOut' = NoSequence
    /\ UNCHANGED <<otherVars, doseVars, decayVars, serviceVars, glucoseBuffer, pushed>>

\* FeatureEngineer.get_feature_sequence(iob_value, seq_length)
GetFeatureSequence ==
    /\ \E iob \in FsIobValues, n \in FsSeqLengths, pandasRaises \in BOOLEAN :
        /\ fsIn' = [called |-> TRUE, iob100 |-> iob, seq_length |-> n]
        /\ fsOut' = get_feature_sequence(glucoseBuffer, treatmentBuffer, iob, n,
                                         pandasRaises)
    /\ UNCHANGED <<otherVars, doseVars, decayVars, serviceVars, bufferVars>>

\* FeatureEngineer.clear(); the stream of readings starts over.
Clear ==
    /\ glucoseBuffer # <<>> \/ treatmentBuffer # <<>>
    /\ glucoseBuffer' = <<>>
    /\ treatmentBuffer' = <<>>
    /\ pushed' = [n |-> 0, bad |-> 0]
    /\ fsIn' = NoFsIn
    /\ fsOut' = NoSequence
    /\ UNCHANGED <<otherVars, doseVars, decayVars, serviceVars>>

----------------------------------------------------------------------------
(* TrendExtrapolator: ml/inference/linear_prediction.py                    *)
(* Predictions are in hundredths of a mg/dL.                               *)

Clamp(lo, hi, x) == Max(lo, Min(hi, x))

history_points == 6
prediction_horizons == <<5, 10, 15>>

\* The fit ignored: the last value at every horizon.
LinearPredictHoldsLast(glucose_values) ==
    [k \in DOMAIN prediction_horizons |->
        100 * (IF glucose_values = <<>> THEN 100
               ELSE glucose_values[Len(glucose_values)])]

\* LinearPredictor.predict on values SAMPLING_MIN apart: the least-squares
\* line through the last history_points values, read at each horizon after
\* the last one and clamped to [40, 400].  With n values y_0..y_(n-1),
\* S = sum y_i and A = sum (2i - n + 1) y_i, the line at x_(n-1) + h is
\* (10(n^2-1) S + 6 A (5(n-1) + 2h)) / (10 n (n^2-1)).
LinearPredictor_predict(glucose_values) ==
    IF Len(glucose_values) < 2
    THEN LET last_val == IF glucose_values = <<>> THEN 100
                         ELSE glucose_values[Len(glucose_values)]
         IN  [k \in DOMAIN prediction_horizons |-> 100 * last_val]
    ELSE LET n == Min(history_points, Len(glucose_values))
             first == Len(glucose_values) - n
             y(i) == glucose_values[first + i + 1]
             S == SumSeq([i \in 1..n |-> y(i - 1)])
             A == SumSeq([i \in 1..n |-> (2 * (i - 1) - n + 1) * y(i - 1)])
             den == 10 * n * (n * n - 1)
             at(h) == RoundHalfEven(
                          100 * (10 * (n * n - 1) * S
                                 + 6 * A * (SAMPLING_MIN * (n - 1) + 2 * h)), den)
         IN  [k \in DOMAIN prediction_horizons |->
                 Clamp(4000, 40000, at(prediction_horizons[k]))]

\* The slope LinearPredictor.predict returns, in thousandths of a mg/dL per
\* minute: 0.0 on the degenerate path, else 6 A / (5 n (n^2 - 1)).
LinearPredictor_slope(glucose_values) ==
    IF Len(glucose_values) < 2 THEN 0
    ELSE LET n == Min(history_points, Len(glucose_values))
             first == Len(glucose_values) - n
             A == SumSeq([i \in 1..n |->
                             (2 * (i - 1) - n + 1) * glucose_values[first + i]])
         IN  RoundHalfEven(1000 * 6 * A, SAMPLING_MIN * n * (n * n - 1))

\* predict reading glucose_values[-1] without testing for the empty list.
LinearFitNoEmptyGuard(glucose_values) ==
    [raised |-> glucose_values = <<>>,
     predictions |-> IF glucose_values = <<>> THEN <<>>
                     ELSE LinearPredictor_predict(glucose_values),
     slope1000 |-> LinearPredictor_slope(glucose_values)]

\* The call LinearPredictor.predict(glucose_values): (predictions, slope, _);
\* no statement of it raises on a list of numbers (the read of the last value
\* is guarded, the fit sits in a try block).
LinearPredictor_fit(glucose_values) ==
    [raised |-> FALSE,
     predictions |-> LinearPredictor_predict(glucose_values),
     slope1000 |-> LinearPredictor_slope(glucose_values)]

\* predict_with_trend without the clamp to [40, 400].
PredictWithTrendUnclamped(current_bg, trend) ==
    LET rate == IF trend \in (0 - 3)..3 THEN trend ELSE 0
    IN  [k \in DOMAIN prediction_horizons |->
            100 * (current_bg + rate * prediction_horizons[k])]

\* LinearPredictor.predict_with_trend: current_bg + rate * horizon, the rate
\* being the trend arrow in mg/dL per minute (0 for an unknown arrow).
predict_with_trend(current_bg, trend) ==
    LET rate == IF trend \in (0 - 3)..3 THEN trend ELSE 0
    IN  [k \in DOMAIN prediction_horizons |->
            Clamp(4000, 40000, 100 * (current_bg + rate * prediction_horizons[k]))]

----------------------------------------------------------------------------
(* SequenceEstimator: ml/inference/bg_inference.py, isf_inference.py       *)
(*                                                                         *)
(* The trained networks are opaque; each is modelled as a fixed function   *)
(* of the last row of the sequence and of its weights, reading its inputs  *)
(* by position as a network does.                                          *)

Null == <<>>
default_isf == 50

\* A feature list with the first two names exchanged, and one a column short.
ReorderedColumns ==
    [i \in DOMAIN BG_FEATURE_COLUMNS |->
        IF i = 1 THEN BG_FEATURE_COLUMNS[2]
        ELSE IF i = 2 THEN BG_FEATURE_COLUMNS[1] ELSE BG_FEATURE_COLUMNS[i]]
NarrowColumns == SubSeq(BG_FEATURE_COLUMNS, 1, Len(BG_FEATURE_COLUMNS) - 1)

\* What a models directory can hold for the glucose model:
\*   missing       no model file
\*   trained       model, scalers and feature list for BG_FEATURE_COLUMNS
\*   reordered     the same, trained on (and listing) ReorderedColumns
\*   narrow        a model trained on NarrowColumns (25 inputs)
\*   stale_scaler  a 26-input model with a feature scaler fit on 25 columns
BgArtifacts == {"missing", "trained", "reordered", "narrow", "stale_scaler"}
\* and for the sensitivity model:
\*   missing       no model file
\*   trained       a model over the 26 columns of BG_FEATURE_COLUMNS
\*   malformed     a model file torch.load or load_state_dict refuses
\*   other_inputs  a model over 25 inputs (load() takes the network's
\*                 dimensions from the file, so it loads)
IsfArtifacts == {"missing", "trained", "malformed", "other_inputs"}
Weights == {[gain |-> 2, isf_base |-> 30], [gain |-> 0, isf_base |-> 60]}

NoBgService ==
    [present |-> FALSE, loaded |-> FALSE, feature_columns |-> BG_FEATURE_COLUMNS,
     scaler_n |-> 0]
NoIsfService ==
    [present |-> FALSE, loaded |-> FALSE, default_isf |-> default_isf,
     n_feat |-> 0]

\* create_bg_service: construct, then load().  load() returns False without a
\* model file, and when load_state_dict refuses weights that do not fit the
\* 26-input network; the feature list, when present, replaces feature_columns.
create_bg_service(artifact) ==
    CASE artifact = "missing" ->
            [NoBgService EXCEPT !.present = TRUE]
      [] artifact = "trained" ->
            [present |-> TRUE, loaded |-> TRUE,
             feature_columns |-> BG_FEATURE_COLUMNS, scaler_n |-> 26]
      [] artifact = "reordered" ->
            [present |-> TRUE, loaded |-> TRUE,
             feature_columns |-> ReorderedColumns, scaler_n |-> 26]
      [] artifact = "narrow" ->
            [NoBgService EXCEPT !.present = TRUE]
      [] artifact = "stale_scaler" ->
            [present |-> TRUE, loaded |-> TRUE,
             feature_columns |-> BG_FEATURE_COLUMNS, scaler_n |-> 25]

\* create_isf_service: construct, then load(), which returns False without
\* a model file and when loading it raises.
create_isf_service(artifact) ==
    [present |-> TRUE, loaded |-> (artifact \in {"trained", "other_inputs"}),
     default_isf |-> default_isf,
     n_feat |-> CASE artifact = "trained" -> 26
                  [] artifact = "other_inputs" -> 25
                  [] OTHER -> 0]

\* The value a row holds in a named column (whole units; the derived columns
\* are not tracked).
ColumnValue(row, name) ==
    CASE name = "value" -> row.value
      [] name = "trend" -> row.trend
      [] name = "iob" -> row.iob3600 \div 3600
      [] OTHER -> 0

PositionOf(columns, name) == CHOOSE i \in DOMAIN columns : columns[i] = name

\* What the network reads as feature `name`: the sequence's column at the
\* position `name` has in the list the network was trained on.
NetInput(trained_columns, sequence, name) ==
    ColumnValue(sequence.rows[Len(sequence.rows)],
                sequence.cols[PositionOf(trained_columns, name)])

\* BGInferenceService.predict returning the outputs as the network gave them.
BgPredictUnclamped(bg, sequence, weights) ==
    IF ~bg.loaded THEN Null
    ELSE IF Len(sequence.cols) # bg.scaler_n THEN Null
    ELSE LET value == NetInput(bg.feature_columns, sequence, "value")
             trend == NetInput(bg.feature_columns, sequence, "trend")
         IN  [k \in 1..3 |-> 100 * (value + weights.gain * (trend + 1) * k)]

\* BGInferenceService.predict: None when not loaded or when scaling raises
\* (a scaler fit on another number of columns); else the three outputs
\* clamped to [40, 400].  feature_columns is not consulted.
BGInferenceService_predict(bg, sequence, weights) ==
    IF ~bg.loaded THEN Null
    ELSE IF Len(sequence.cols) # bg.scaler_n THEN Null
    ELSE LET value == NetInput(bg.feature_columns, sequence, "value")
             trend == NetInput(bg.feature_columns, sequence, "trend")
         IN  [k \in 1..3 |->
                 Clamp(4000, 40000, 100 * (value + weights.gain * (trend + 1) * k))]

\* ISFInferenceService.predict: the default when not loaded and when the
\* network raises on a sequence of another width; else the output clamped to
\* [10, 150].
ISFInferenceService_predict(isf, sequence, weights) ==
    IF ~isf.loaded THEN isf.default_isf
    ELSE IF Len(sequence.cols) # isf.n_feat THEN isf.default_isf
    ELSE Clamp(10, 150,
               weights.isf_base
               + NetInput(BG_FEATURE_COLUMNS, sequence, "value") \div 10)

\* set_default_isf storing the value as given.
SetDefaultIsfUnclamped(isf, value) == [isf EXCEPT !.default_isf = value]

\* ISFInferenceService.set_default_isf
set_default_isf(isf, value) ==
    [isf EXCEPT !.default_isf = Max(10, Min(150, value))]

----------------------------------------------------------------------------
(* PredictionOrchestrator: services/prediction_service.py                  *)
(*                                                                         *)
(* The service owns one FeatureEngineer (history_min = 180); its buffers   *)
(* are glucoseBuffer and treatmentBuffer.                                  *)

\* A constructed PredictionService.  linear_errors and lstm_errors are its
\* _linear_errors and _lstm_errors lists; actuals is its history: the method
\* named by each record_actual call made on it, in order.
NoService ==
    [initialized |-> FALSE, bg |-> NoBgService, isf |-> NoIsfService,
     linear_errors |-> <<>>, lstm_errors |-> <<>>, actuals |-> <<>>]

\* initialize giving up on the sensitivity model when the glucose model
\* does not load.
InitializeStopsAtFirstFailure(svc, e) ==
    IF svc.initialized THEN svc
    ELSE IF e.models_dir
    THEN [svc EXCEPT !.initialized = TRUE,
                     !.bg = create_bg_service(e.bg),
                     !.isf = IF create_bg_service(e.bg).loaded
                             THEN create_isf_service(e.isf) ELSE NoIsfService]
    ELSE [svc EXCEPT !.initialized = TRUE]

\* PredictionService.initialize: load both services when the models
\* directory exists; idempotent.
initialize(svc, e) ==
    IF svc.initialized THEN svc
    ELSE IF e.models_dir
    THEN [svc EXCEPT !.initialized = TRUE,
                     !.bg = create_bg_service(e.bg),
                     !.isf = create_isf_service(e.isf)]
    ELSE [svc EXCEPT !.initialized = TRUE]

\* get_prediction_service building a new service on every call.
GetPredictionServiceRebuilds(svc, e, with_dir) ==
    initialize(NoService, [e EXCEPT !.models_dir = @ /\ with_dir])

\* get_prediction_service(models_dir, device) on the module's service: built
\* and initialized by the first call, from the directory that call names
\* (with_dir: it names the configured one, not None or a path that does not
\* exist), and returned as it is by every later call.  A service exists
\* exactly when it is initialized, the two being done in one call.
get_prediction_service(svc, e, with_dir) ==
    IF svc.initialized THEN svc
    ELSE initialize(NoService, [e EXCEPT !.models_dir = @ /\ with_dir])

lstm_available(svc) == svc.bg.present /\ svc.bg.loaded
isf_available(svc) == svc.isf.present /\ svc.isf.loaded

\* PredictionService._get_isf: the sensitivity model on the sequence of the
\* readings the feature engineer holds at the time of the call; the default
\* when the model is unavailable, no sequence can be built, or building raises.
get_isf(svc, glucose_buffer, treatment_buffer, iob100, e) ==
    LET sequence == get_feature_sequence(glucose_buffer, treatment_buffer, iob100,
                                         SEQ_LENGTH, e.pandas_strict)
    IN  IF isf_available(svc) /\ sequence.kind = "seq"
        THEN ISFInferenceService_predict(svc.isf, sequence, e.weights)
        ELSE IF svc.isf.present THEN svc.isf.default_isf ELSE default_isf

\* for reading in glucose_history: add_glucose_reading(reading).  Appending
\* one reading at a time and trimming after each leaves the last max_readings
\* of buffer followed by readings.
AddReadings(buffer, readings, max_readings) ==
    LET b == buffer \o readings
    IN  IF Len(b) > max_readings
        THEN SubSeq(b, Len(b) - max_readings + 1, Len(b))
        ELSE b

\* for treatment in treatments: add_treatment(treatment), up to the first
\* call that raises.
RECURSIVE AddTreatments(_, _, _, _, _)
AddTreatments(buffer, treatments, now, history_min, tzStrict) ==
    IF treatments = <<>> THEN [raised |-> FALSE, buffer |-> buffer]
    ELSE LET r == add_treatment(buffer, Head(treatments), now, history_min,
                                tzStrict)
         IN  IF r.raised THEN r
             ELSE AddTreatments(r.buffer, Tail(treatments), now, history_min,
                                tzStrict)

NotAttempted(glucose_buffer, treatment_buffer) ==
    [raised |-> FALSE, lstm |-> Null, method |-> "linear",
     sequence |-> "notbuilt", bg_result |-> "notrun",
     glucose_buffer |-> glucose_buffer, treatment_buffer |-> treatment_buffer]

\* The body of the try block of predict: refill the feature engineer from
\* the call's history and treatments, build the sequence, run the glucose
\* model.  raised: an exception left the block.
lstm_attempt(svc, glucose_history, treatments, iob100, now, e) ==
    LET gb == AddReadings(<<>>, glucose_history, MaxReadings(default_history_min))
        tr == AddTreatments(<<>>, treatments, now, default_history_min,
                            e.pandas_strict)
        sequence == get_feature_sequence(gb, tr.buffer, iob100, SEQ_LENGTH,
                                         e.pandas_strict)
        result == BGInferenceService_predict(svc.bg, sequence, e.weights)
        base == NotAttempted(gb, tr.buffer)
    IN  IF tr.raised THEN [base EXCEPT !.raised = TRUE]
        ELSE IF sequence.kind = "raised"
        THEN [base EXCEPT !.raised = TRUE, !.sequence = "raised"]
        ELSE IF sequence.kind = "none" THEN [base EXCEPT !.sequence = "none"]
        ELSE IF result = Null
        THEN [base EXCEPT !.sequence = "seq", !.bg_result = "none"]
        ELSE [base EXCEPT !.sequence = "seq", !.bg_result = "some",
                          !.lstm = result, !.method = "lstm"]

\* The values of a history's readings, in the order given.
GlucoseValues(glucose_history) ==
    [i \in DOMAIN glucose_history |-> glucose_history[i].value]

\* predict with the exception handler around the sequence path removed.
PredictPropagatesSequenceFailure(svc, glucose_buffer, treatment_buffer, call, e) ==
    LET linear == IF Len(call.glucose_history) >= 2
                  THEN LinearPredictor_predict(
                           GlucoseValues(call.glucose_history))
                  ELSE predict_with_trend(call.current_bg, call.trend)
        isf == get_isf(svc, glucose_buffer, treatment_buffer, call.iob100, e)
        attempt == IF lstm_available(svc) /\ call.glucose_history # <<>>
                   THEN lstm_attempt(svc, call.glucose_history, call.treatments,
                                     call.iob100, call.now, e)
                   ELSE NotAttempted(glucose_buffer, treatment_buffer)
    IN  [raised |-> attempt.raised,
         linear |-> IF attempt.raised THEN Null ELSE linear,
         lstm |-> attempt.lstm,
         isf |-> isf,
         method |-> IF attempt.lstm # Null THEN attempt.method ELSE "linear",
         lstm_available |-> lstm_available(svc),
         failed |-> attempt.raised,
         sequence |-> attempt.sequence,
         bg_result |-> attempt.bg_result,
         glucose_buffer |-> attempt.glucose_buffer,
         treatment_buffer |-> attempt.treatment_buffer]

\* predict tagging the result "lstm" whenever the glucose model is loaded.
PredictTagsByAvailability(svc, glucose_buffer, treatment_buffer, call, e) ==
    LET r == PredictPropagatesSequenceFailure(svc, glucose_buffer,
                                              treatment_buffer, call, e)
    IN  [r EXCEPT !.raised = FALSE,
                  !.method = IF lstm_available(svc) THEN "lstm" ELSE "linear"]

\* PredictionService.predict (after initialize): the linear forecast, then
\* the sensitivity, then the sequence path under its exception handler; the
\* result is tagged "lstm" only with sequence predictions in hand.  call is
\* the arguments and the time of the call; failed: the handler caught an
\* exception.  The record also carries the buffers the call leaves in the
\* feature engineer.
PredictionService_predict(svc, glucose_buffer, treatment_buffer, call, e) ==
    LET linear == IF Len(call.glucose_history) >= 2
                  THEN LinearPredictor_predict(
                           GlucoseValues(call.glucose_history))
                  ELSE predict_with_trend(call.current_bg, call.trend)
        isf == get_isf(svc, glucose_buffer, treatment_buffer, call.iob100, e)
        attempt == IF lstm_available(svc) /\ call.glucose_history # <<>>
                   THEN lstm_attempt(svc, call.glucose_history, call.treatments,
                                     call.iob100, call.now, e)
                   ELSE NotAttempted(glucose_buffer, treatment_buffer)
        lstm_preds == IF attempt.raised THEN Null ELSE attempt.lstm
        method == IF attempt.raised THEN "linear" ELSE attempt.method
    IN  [raised |-> FALSE,
         linear |-> linear,
         lstm |-> lstm_preds,
         isf |-> isf,
         method |-> IF lstm_preds # Null THEN method ELSE "linear",
         lstm_available |-> lstm_available(svc),
         failed |-> attempt.raised,
         sequence |-> attempt.sequence,
         bg_result |-> attempt.bg_result,
         glucose_buffer |-> attempt.glucose_buffer,
         treatment_buffer |-> attempt.treatment_buffer]

\* PredictionService.record_actual(prediction_time, actual_values, method):
\* the body is `pass`; no field of the service changes.
PredictionService_record_actual(svc, actual_values, method) ==
    [svc EXCEPT !.actuals = Append(@, method)]

\* PredictionService.get_accuracy_stats: mean and count of each list of the
\* service (the means in tenths; lstm_mae is None for an empty list).
get_accuracy_stats(svc) ==
    LET linear_mae == IF svc.linear_errors = <<>> THEN 0
                      ELSE RoundHalfEven(10 * SumSeq(svc.linear_errors),
                                         Len(svc.linear_errors))
        lstm_mae == IF svc.lstm_errors = <<>> THEN NoAmount
                    ELSE RoundHalfEven(10 * SumSeq(svc.lstm_errors),
                                       Len(svc.lstm_errors))
    IN  [linear_mae |-> linear_mae, lstm_mae |-> lstm_mae,
         linear_count |-> Len(svc.linear_errors),
         lstm_count |-> Len(svc.lstm_errors),
         winner |-> IF lstm_mae # NoAmount /\ lstm_mae < linear_mae
                    THEN "lstm" ELSE "linear"]

\* What the service runs on: whether the models directory exists and what it
\* holds, the weights of the trained networks, and whether the pandas build
\* refuses tz-aware/naive comparisons and None operands.
Environments ==
    { e \in [models_dir : BOOLEAN, bg : BgArtifacts,
             isf : {"missing", "trained"},
             weights : Weights, pandas_strict : BOOLEAN] :
        e.models_dir \/ (e.bg = "missing" /\ e.isf = "missing") }

\* Bounds of the calls made on a PredictionService.
MaxServicePushed == 1

\* The shapes of glucose_history: n readings SAMPLING_MIN apart, oldest first
\* ("asc") or newest first ("desc", as the repository query returns them),
\* `bad` of them without a usable timestamp, the oldest reading at `level`.
HistoryShapes ==
    { [n |-> 0, order |-> "asc", bad |-> 0, level |-> 100],
      [n |-> 1, order |-> "asc", bad |-> 0, level |-> 100],
      [n |-> SEQ_LENGTH - 1, order |-> "asc", bad |-> 0, level |-> 100],
      [n |-> SEQ_LENGTH, order |-> "asc", bad |-> 0, level |-> 100],
      [n |-> SEQ_LENGTH, order |-> "asc", bad |-> 0, level |-> 390],
      [n |-> SEQ_LENGTH, order |-> "desc", bad |-> 0, level |-> 100],
      [n |-> SEQ_LENGTH, order |-> "asc", bad |-> 1, level |-> 100],
      [n |-> MaxReadings(default_history_min) + 1, order |-> "asc", bad |-> 0,
       level |-> 100] }

HistoryOf(shape) ==
    LET asc == [i \in 1..shape.n |->
                   [ts |-> IF i - 1 \in 1..shape.bad THEN NoTs
                           ELSE SAMPLING_MIN * (i - 1),
                    value |-> shape.level + 2 * (i - 1), trend |-> 0]]
    IN  IF shape.order = "asc" THEN asc
        ELSE [i \in 1..shape.n |-> asc[shape.n + 1 - i]]

BolusAt(ts) ==
    [ts |-> ts, type |-> "insulin", insulin100 |-> 200, carbs10 |-> NoAmount,
     protein10 |-> NoAmount, fat10 |-> NoAmount]
CarbEntryAt(ts) ==
    [ts |-> ts, type |-> "carbs", insulin100 |-> NoAmount, carbs10 |-> 300,
     protein10 |-> NoAmount, fat10 |-> NoAmount]

\* The predict calls made: every history shape with a rising trend arrow, no
\* iob and no treatments; a falling arrow with the histories too short for a
\* line fit; iob and treatments with the histories long enough for a sequence.
PredictCalls ==
    { c \in [current_bg : {30, 120}, trend : {0 - 2, 1}, iob100 : {0, 150},
             history : HistoryShapes,
             treatments : {<<>>, <<BolusAt(100)>>, <<CarbEntryAt(100)>>}] :
        /\ c.trend = 1 \/ c.history.n < 2
        /\ c.current_bg = 120 \/ (c.history.n = 0 /\ c.trend = 0 - 2)
        /\ c.iob100 = 0
               \/ (c.history = [n |-> SEQ_LENGTH, order |-> "asc", bad |-> 0,
                                 level |-> 100]
                   /\ c.trend = 1 /\ c.treatments = <<>>)
        /\ c.treatments = <<>>
               \/ (c.history.n >= SEQ_LENGTH /\ c.history.order = "asc"
                   /\ c.history.bad = 0 /\ c.history.level = 100
                   /\ c.trend = 1 /\ c.iob100 = 0) }

NoPredictIn ==
    [called |-> FALSE, current_bg |-> 0, trend |-> 0, iob100 |-> 0,
     history |-> [n |-> 0, order |-> "asc", bad |-> 0, level |-> 100],
     treatments |-> <<>>]
NoPredictOut ==
    [raised |-> FALSE, linear |-> Null, lstm |-> Null, isf |-> 0,
     method |-> "linear", lstm_available |-> FALSE, failed |-> FALSE,
     sequence |-> "notbuilt", bg_result |-> "notrun"]

\* PredictionService.initialize()
Initialize ==
    /\ ~service.initialized
    /\ service' = initialize(service, env)
    /\ UNCHANGED <<otherVars, doseVars, decayVars, featureVars, env, predictIn, predictOut>>

\* PredictionService.initialize() called once more
InitializeAgain ==
    /\ service.initialized
    /\ service' = initialize(service, env)
    /\ UNCHANGED <<otherVars, doseVars, decayVars, featureVars, env, predictIn, predictOut>>

\* get_prediction_service(models_dir, device)
GetPredictionService ==
    /\ \E with_dir \in BOOLEAN :
           service' = get_prediction_service(service, env, with_dir)
    /\ UNCHANGED <<otherVars, doseVars, decayVars, featureVars, env, predictIn, predictOut>>

\* PredictionService.record_actual(prediction_time, actual_values, method)
\* with the values observed after the last prediction.
MaxActuals == 2
ServiceRecordActual ==
    /\ predictIn.called /\ ~predictOut.raised
    /\ Len(service.actuals) < MaxActuals
    /\ \E method \in {"linear", "lstm"}, miss \in {0, 10} :
           service' = PredictionService_record_actual(
                          service,
                          [k \in 1..3 |-> predictOut.linear[k] \div 100 + miss],
                          method)
    /\ UNCHANGED <<otherVars, doseVars, decayVars, featureVars, env, predictIn, predictOut>>

\* PredictionService.add_glucose_reading(reading)
ServiceAddGlucoseReading ==
    /\ pushed.n < MaxServicePushed
    /\ glucoseBuffer' =
           add_glucose_reading(glucoseBuffer, StreamReading(pushed.n, TRUE),
                               MaxReadings(default_history_min))
    /\ pushed' = [pushed EXCEPT !.n = @ + 1]
    /\ UNCHANGED <<otherVars, doseVars, decayVars, treatmentBuffer, fsIn, fsOut, serviceVars>>

\* PredictionService.add_treatment(treatment)
ServiceAddTreatment ==
    /\ Len(treatmentBuffer) < MaxBufferedTreatments
    /\ treatmentBuffer' =
           add_treatment(treatmentBuffer, BolusAt(100),
                         SAMPLING_MIN * SEQ_LENGTH, default_history_min,
                         env.pandas_strict).buffer
    /\ UNCHANGED <<otherVars, doseVars, decayVars, glucoseBuffer, pushed, fsIn, fsOut,
                   serviceVars>>

\* PredictionService.predict(current_bg, trend, iob, glucose_history, treatments)
Predict ==
    /\ \E c \in PredictCalls :
        \E r \in {PredictionService_predict(
                       initialize(service, env), glucoseBuffer, treatmentBuffer,
                       [current_bg |-> c.current_bg, trend |-> c.trend,
                        iob100 |-> c.iob100,
                        glucose_history |-> HistoryOf(c.history),
                        treatments |-> c.treatments,
                        now |-> SAMPLING_MIN * c.history.n], env)} :
            /\ service' = initialize(service, env)
            /\ glucoseBuffer' = r.glucose_buffer
            /\ treatmentBuffer' = r.treatment_buffer
            /\ predictIn' = [called |-> TRUE, current_bg |-> c.current_bg,
                             trend |-> c.trend, iob100 |-> c.iob100,
                             history |-> c.history, treatments |-> c.treatments]
            /\ predictOut' = [raised |-> r.raised, linear |-> r.linear,
                              lstm |-> r.lstm, isf |-> r.isf,
                              method |-> r.method,
                              lstm_available |-> r.lstm_available,
                              failed |-> r.failed, sequence |-> r.sequence,
                              bg_result |-> r.bg_result]
    /\ UNCHANGED <<otherVars, doseVars, decayVars, pushed, fsIn, fsOut, env>>

\* The calls made on a LinearPredictor: every list of up to three of a low,
\* a normal and a high value; straight lines of 2 to history_points + 1
\* values; current values around the clamp with every trend arrow and two
\* codes that are none.
LinearSeries ==
    UNION {[1..n -> {30, 100, 450}] : n \in 0..3}
      \cup { [i \in 1..n |-> start + d * (i - 1)] :
                 n \in 2..(history_points + 1), start \in {100, 380},
                 d \in {0 - 10, 0, 3, 5} }
LinearInputs ==
    [glucose_values : LinearSeries, current_bg : {120}, trend : {0}]
      \cup [glucose_values : {<<>>}, current_bg : {35, 50, 120, 390, 420},
            trend : (0 - 4)..4]
NoLinOut == [op |-> "none", raised |-> FALSE, predictions |-> <<>>, slope1000 |-> 0]

\* LinearPredictor.predict(glucose_values)
LinearPredict ==
    /\ \E r \in {LinearPredictor_fit(linIn.glucose_values)} :
           linOut' = [op |-> "predict", raised |-> r.raised,
                      predictions |-> r.predictions, slope1000 |-> r.slope1000]
    /\ UNCHANGED <<doseVars, decayVars, featureVars, serviceVars, isfOut, linIn,
                   trackerVars>>

\* LinearPredictor.predict_with_trend(current_bg, trend)
LinearPredictWithTrend ==
    /\ linOut' = [op |-> "predict_with_trend", raised |-> FALSE,
                  predictions |-> predict_with_trend(linIn.current_bg,
                                                     linIn.trend),
                  slope1000 |-> 0]
    /\ UNCHANGED <<doseVars, decayVars, featureVars, serviceVars, isfOut, linIn,
                   trackerVars>>

\* The models directories a service is loaded from: a missing, a loadable
\* and a refused glucose model with each sensitivity artifact.
LoadEnvironments ==
    { e \in [models_dir : BOOLEAN, bg : {"missing", "trained", "narrow"},
             isf : IsfArtifacts, weights : {[gain |-> 0, isf_base |-> 60]},
             pandas_strict : {TRUE}] :
        e.models_dir \/ (e.bg = "missing" /\ e.isf = "missing") }

DefaultIsfValues == {5, 400}
NoIsfOut ==
    [op |-> "none", value |-> 0, default |-> 0, available |-> FALSE,
     sequence |-> "notbuilt", fits |-> FALSE]

\* What the service falls back to: the default of its sensitivity service,
\* 50.0 without one.
DefaultOf(svc) == IF svc.isf.present THEN svc.isf.default_isf ELSE default_isf

\* The sequence the feature engineer builds from its buffers.
BufferedSequence ==
    get_feature_sequence(glucoseBuffer, treatmentBuffer, 0, SEQ_LENGTH,
                         env.pandas_strict)

\* ISFInferenceService.set_default_isf(value) on the service's estimator
SetDefaultIsf ==
    /\ service.isf.present
    /\ \E v \in DefaultIsfValues :
           service' = [service EXCEPT !.isf = set_default_isf(@, v)]
    /\ UNCHANGED <<doseVars, decayVars, featureVars, env, predictIn, predictOut,
                   isfOut, linearVars, trackerVars>>

\* PredictionService._get_isf(iob)
GetIsf ==
    /\ isfOut' = [op |-> "_get_isf",
                  value |-> get_isf(service, glucoseBuffer, treatmentBuffer, 0,
                                    env),
                  default |-> DefaultOf(service),
                  available |-> isf_available(service),
                  sequence |-> BufferedSequence.kind,
                  fits |-> BufferedSequence.kind = "seq"
                           /\ Len(BufferedSequence.cols) = service.isf.n_feat]
    /\ UNCHANGED <<doseVars, decayVars, featureVars, serviceVars, linearVars,
                   trackerVars>>

\* ISFInferenceService.predict(feature_sequence) on the sequence of the
\* buffered readings
IsfPredict ==
    /\ service.isf.present
    /\ BufferedSequence.kind = "seq"
    /\ isfOut' = [op |-> "predict",
                  value |-> ISFInferenceService_predict(service.isf,
                                                        BufferedSequence,
                                                        env.weights),
                  default |-> service.isf.default_isf,
                  available |-> service.isf.loaded,
                  sequence |-> "seq",
                  fits |-> Len(BufferedSequence.cols) = service.isf.n_feat]
    /\ UNCHANGED <<doseVars, decayVars, featureVars, serviceVars, linearVars,
                   trackerVars>>

----------------------------------------------------------------------------
(* AccuracyLedger: services/accuracy_service.py                            *)
(*                                                                         *)
(* Glucose values are whole mg/dL and times whole minutes.  A              *)
(* PredictionRecord is [rec, timestamp, linear, lstm, actual, evaluated];  *)
(* linear, lstm and actual hold the _5, _10 and _15 fields in that order   *)
(* and rec is the identity of the object.  Besides the fields of the       *)
(* class the tracker carries its history: made (records created so far),   *)
(* log (one entry per _evaluate_record call, in order) and evicted_open    *)
(* (records the deque dropped before they were evaluated).                 *)

NoActual == 0 - 1

NoTracker(max_records) ==
    [max_records |-> max_records, predictions |-> <<>>,
     linear_errors |-> <<>>, lstm_errors |-> <<>>,
     linear_wins |-> 0, lstm_wins |-> 0,
     made |-> 0, log |-> <<>>, evicted_open |-> {}]

\* AccuracyTracker.record_prediction at time now: append a fresh record; the
\* deque (maxlen = max_records) drops its oldest record when full.
record_prediction(t, now, linear, lstm) ==
    LET record == [rec |-> t.made + 1, timestamp |-> now, linear |-> linear,
                   lstm |-> lstm,
                   actual |-> <<NoActual, NoActual, NoActual>>,
                   evaluated |-> FALSE]
        appended == Append(t.predictions, record)
        full == Len(appended) > t.max_records
        oldest == Head(appended)
    IN  [t EXCEPT !.predictions = IF full THEN Tail(appended) ELSE appended,
                  !.made = @ + 1,
                  !.evicted_open = IF full /\ ~oldest.evaluated
                                   THEN @ \cup {oldest.rec} ELSE @]

\* The if / elif chain without its "is None" tests.
MatchSlotOverwrites(record, time_diff) ==
    IF 4 <= time_diff /\ time_diff <= 6 THEN 1
    ELSE IF 9 <= time_diff /\ time_diff <= 11 THEN 2
    ELSE IF 14 <= time_diff /\ time_diff <= 16 THEN 3
    ELSE 0

\* The slot an actual of age time_diff goes to in record (0: none): the
\* if / elif chain of record_actual.
MatchSlot(record, time_diff) ==
    IF 4 <= time_diff /\ time_diff <= 6 /\ record.actual[1] = NoActual THEN 1
    ELSE IF 9 <= time_diff /\ time_diff <= 11 /\ record.actual[2] = NoActual
    THEN 2
    ELSE IF 14 <= time_diff /\ time_diff <= 16 /\ record.actual[3] = NoActual
    THEN 3
    ELSE 0

\* record.actual_N = value for the matching slot.
fill_slot(record, timestamp, value) ==
    LET slot == MatchSlot(record, timestamp - record.timestamp)
    IN  IF slot = 0 THEN record ELSE [record EXCEPT !.actual[slot] = value]

\* The completeness test without its actual_15 conjunct.
FirstTwoFilled(record) == \A k \in 1..2 : record.actual[k] # NoActual

\* actual_5, actual_10 and actual_15 are all not None.
AllFilled(record) == \A k \in 1..3 : record.actual[k] # NoActual

AbsErrors(predicted, actual) ==
    [k \in 1..3 |-> Abs(predicted[k] - actual[k])]

\* The trim keeping the first max_errors entries.
TrimKeepsOldest(pool, max_errors) ==
    IF Len(pool) > max_errors THEN SubSeq(pool, 1, max_errors) ELSE pool

\* self._linear_errors[-max_errors:] when longer than max_errors.
Trim(pool, max_errors) ==
    IF Len(pool) > max_errors
    THEN SubSeq(pool, Len(pool) - max_errors + 1, Len(pool))
    ELSE pool

\* _evaluate_record crediting the sequence model whenever the record has
\* sequence predictions.
EvaluateRecordLstmAlwaysWins(t, record, max_errors) ==
    LET linear_err == AbsErrors(record.linear, record.actual)
        has_lstm == record.lstm # Null
    IN  [t EXCEPT
            !.linear_errors = Trim(Append(@, linear_err), max_errors),
            !.lstm_errors = IF has_lstm
                            THEN Trim(Append(@, AbsErrors(record.lstm,
                                                          record.actual)),
                                      max_errors)
                            ELSE @,
            !.lstm_wins = IF has_lstm THEN @ + 1 ELSE @,
            !.log = Append(@, [rec |-> record.rec, has_lstm |-> has_lstm])]

\* _evaluate_record with the comparison written lstm_avg <= linear_avg.
EvaluateRecordTiesToLstm(t, record, max_errors) ==
    LET linear_err == AbsErrors(record.linear, record.actual)
        has_lstm == record.lstm # Null
        lstm_err == IF has_lstm THEN AbsErrors(record.lstm, record.actual)
                    ELSE <<>>
        lstm_better == has_lstm /\ SumSeq(lstm_err) <= SumSeq(linear_err)
    IN  [t EXCEPT
            !.linear_errors = Trim(Append(@, linear_err), max_errors),
            !.lstm_errors = IF has_lstm THEN Trim(Append(@, lstm_err), max_errors)
                            ELSE @,
            !.lstm_wins = IF lstm_better THEN @ + 1 ELSE @,
            !.linear_wins = IF has_lstm /\ ~lstm_better THEN @ + 1 ELSE @,
            !.log = Append(@, [rec |-> record.rec, has_lstm |-> has_lstm])]

\* AccuracyTracker._evaluate_record: append the record's absolute errors to
\* the pools, credit the method with the lower mean error (linear on a tie),
\* trim the pools to their last max_errors entries.
evaluate_record(t, record, max_errors) ==
    LET linear_err == AbsErrors(record.linear, record.actual)
        has_lstm == record.lstm # Null
        lstm_err == IF has_lstm THEN AbsErrors(record.lstm, record.actual)
                    ELSE <<>>
        lstm_better == has_lstm /\ SumSeq(lstm_err) < SumSeq(linear_err)
    IN  [t EXCEPT
            !.linear_errors = Trim(Append(@, linear_err), max_errors),
            !.lstm_errors = IF has_lstm THEN Trim(Append(@, lstm_err), max_errors)
                            ELSE @,
            !.lstm_wins = IF lstm_better THEN @ + 1 ELSE @,
            !.linear_wins = IF has_lstm /\ ~lstm_better THEN @ + 1 ELSE @,
            !.log = Append(@, [rec |-> record.rec, has_lstm |-> has_lstm])]

\* One pass of the loop body of record_actual over predictions[i].
record_actual_step(t, i, timestamp, value, max_errors) ==
    LET record == t.predictions[i]
        filled == fill_slot(record, timestamp, value)
        marked == IF AllFilled(filled) THEN [filled EXCEPT !.evaluated = TRUE]
                  ELSE filled
        stored == [t EXCEPT !.predictions[i] = marked]
    IN  IF record.evaluated THEN t
        ELSE IF AllFilled(filled) THEN evaluate_record(stored, marked, max_errors)
        ELSE stored

\* record_actual whose loop does not skip evaluated records.
RECURSIVE RecordActualRevisitsEvaluated(_, _, _, _, _)
RecordActualRevisitsEvaluated(t, i, timestamp, value, max_errors) ==
    IF i > Len(t.predictions) THEN t
    ELSE LET record == t.predictions[i]
             filled == fill_slot(record, timestamp, value)
             marked == IF AllFilled(filled)
                       THEN [filled EXCEPT !.evaluated = TRUE] ELSE filled
             stored == [t EXCEPT !.predictions[i] = marked]
             next == IF AllFilled(filled)
                     THEN evaluate_record(stored, marked, max_errors)
                     ELSE stored
         IN  RecordActualRevisitsEvaluated(next, i + 1, timestamp, value,
                                           max_errors)

\* AccuracyTracker.record_actual from predictions[i] on.
RECURSIVE record_actual(_, _, _, _, _)
record_actual(t, i, timestamp, value, max_errors) ==
    IF i > Len(t.predictions) THEN t
    ELSE record_actual(record_actual_step(t, i, timestamp, value, max_errors),
                       i + 1, timestamp, value, max_errors)

\* The sum of all errors of a pool, over the three horizons.
PoolSum(pool) == SumSeq([i \in DOMAIN pool |-> SumSeq(pool[i])])

\* _calculate_metrics(errors).mae_overall in tenths of a mg/dL:
\* round(sum / (3 n), 1), and 0.0 for an empty pool.
mae_overall(pool) ==
    IF pool = <<>> THEN 0 ELSE RoundHalfEven(10 * PoolSum(pool), 3 * Len(pool))

\* AccuracyTracker.get_accuracy: the counts of the comparison, sample_count
\* and mae_overall of each pool (lstm metrics only with a non-empty pool),
\* and the winner: "lstm" when there are lstm metrics whose mae_overall is
\* below that of linear.
get_accuracy(t) ==
    [linear_wins |-> t.linear_wins, lstm_wins |-> t.lstm_wins,
     total_comparisons |-> t.linear_wins + t.lstm_wins,
     linear_samples |-> Len(t.linear_errors),
     lstm_samples |-> Len(t.lstm_errors),
     linear_mae |-> mae_overall(t.linear_errors),
     lstm_mae |-> IF t.lstm_errors = <<>> THEN NoActual
                  ELSE mae_overall(t.lstm_errors),
     winner |-> IF /\ t.lstm_errors # <<>>
                   /\ mae_overall(t.lstm_errors) < mae_overall(t.linear_errors)
                THEN "lstm" ELSE "linear"]

\* Bounds of the tracker runs: the capacity of the deque, the records made,
\* the length the pools are trimmed to (500 in _evaluate_record) and the
\* latest time of a prediction.
TrackerMaxRecords == 2
MaxPredictions == 3
PoolLimit == 2
MaxClock == 5

\* The predictions recorded: linear only, and linear against a sequence
\* forecast 30 mg/dL higher.
TrackedPredictions ==
    { [linear |-> <<100, 100, 100>>, lstm |-> Null],
      [linear |-> <<100, 100, 100>>, lstm |-> <<130, 130, 130>>] }
\* The actuals recorded, one value per time: at the edges of, inside and
\* outside the bands of a record made at 0 or at SAMPLING_MIN.
ActualReadings ==
    { [timestamp |-> 4, value |-> 100], [timestamp |-> 6, value |-> 130],
      [timestamp |-> 10, value |-> 115], [timestamp |-> 16, value |-> 115],
      [timestamp |-> 20, value |-> 115] }

NoTrackerIn == [op |-> "none", timestamp |-> 0, value |-> 0]

\* Time passes.
Tick ==
    /\ clock + SAMPLING_MIN <= MaxClock
    /\ clock' = clock + SAMPLING_MIN
    /\ UNCHANGED <<doseVars, decayVars, featureVars, serviceVars, isfOut,
                   linearVars, tracker, trackerIn, requests>>

\* AccuracyTracker.record_prediction(current_bg, linear, lstm)
RecordPrediction ==
    /\ tracker.made < MaxPredictions
    /\ \E p \in TrackedPredictions :
           tracker' = record_prediction(tracker, clock, p.linear, p.lstm)
    /\ trackerIn' = [op |-> "record_prediction", timestamp |-> clock, value |-> 0]
    /\ UNCHANGED <<doseVars, decayVars, featureVars, serviceVars, isfOut,
                   linearVars, clock, requests>>

\* AccuracyTracker.record_actual(timestamp, value)
RecordActual ==
    /\ \E a \in ActualReadings :
           /\ tracker' = record_actual(tracker, 1, a.timestamp, a.value,
                                       PoolLimit)
           /\ trackerIn' = [op |-> "record_actual", timestamp |-> a.timestamp,
                            value |-> a.value]
    /\ UNCHANGED <<doseVars, decayVars, featureVars, serviceVars, isfOut,
                   linearVars, clock, requests>>

\* Requests on the shared tracker.  The endpoints are coroutines on one
\* event loop: a request is suspended at an await before it calls the
\* tracker, and once resumed it runs until its next await.  The tracker
\* call of a request is cut at the statements of the method: pc is
\*   "suspended"  awaiting, the call not yet made
\*   "fill"       record_actual at the if / elif chain for predictions[i]
\*   "mark"       record_actual at the completeness test for that record
\*   "evaluate"   record_actual about to call _evaluate_record for it
\*   "idle"       the call has returned;  "raised": it raised
\* torn: what a get_accuracy call saw was between two statements of another
\* call.  made0 is the number of appends when the loop's iterator was made.
MaxRequests == 2

RequestIds == 1..MaxRequests
IdleRequest ==
    [op |-> "none", pc |-> "idle", timestamp |-> 0, value |-> 0,
     linear |-> <<>>, lstm |-> <<>>, i |-> 0, rec |-> 0, made0 |-> 0,
     torn |-> FALSE]

\* The actuals the requests bring: those that can match a record made at 0.
RequestReadings == {a \in ActualReadings : a.timestamp \in {4, 10, 16}}

\* The statements of the tracker's methods at which a coroutine can be
\* suspended, every statement boundary of the loop of record_actual.
YieldsBetweenStatements == {"fill", "mark", "evaluate"}

\* The statements of the tracker's methods at which a coroutine can be
\* suspended: the methods are plain functions without an await.
YieldPoints == {}

InsideTracker(r) == requests[r].pc \in {"fill", "mark", "evaluate"}

\* The event loop can run request r: no other request is inside a tracker
\* method short of a point where it can be suspended.
CanRun(r) ==
    \A q \in RequestIds \ {r} :
        InsideTracker(q) => requests[q].pc \in YieldPoints

\* A record with three actuals not yet marked evaluated, or an evaluated
\* record whose errors _evaluate_record has not yet appended.
TornState(t) ==
    \E n \in DOMAIN t.predictions :
        \/ AllFilled(t.predictions[n]) /\ ~t.predictions[n].evaluated
        \/ /\ t.predictions[n].evaluated
           /\ \A m \in DOMAIN t.log : t.log[m].rec # t.predictions[n].rec

\* The position of the record object rec in the deque (0: evicted).
IndexOfRec(t, rec) ==
    IF \E n \in DOMAIN t.predictions : t.predictions[n].rec = rec
    THEN CHOOSE n \in DOMAIN t.predictions : t.predictions[n].rec = rec
    ELSE 0

\* The loop of record_actual moves on from predictions[i].
NextRecord(req, t) ==
    IF req.i + 1 > Len(t.predictions)
    THEN IdleRequest
    ELSE [req EXCEPT !.pc = "fill", !.i = @ + 1, !.rec = 0]

\* A request arrives (it takes the first free place in the table of
\* requests) and awaits before its tracker call.
RequestArrives ==
    /\ \E r \in RequestIds :
        /\ requests[r].pc \in {"idle", "raised"}
        /\ \A q \in 1..(r - 1) : requests[q].pc \notin {"idle", "raised"}
        /\ \/ /\ tracker.made
                   + Cardinality({q \in RequestIds :
                                     /\ requests[q].op = "record_prediction"
                                     /\ requests[q].pc = "suspended"})
                   < MaxPredictions
              /\ \E p \in TrackedPredictions :
                     requests' = [requests EXCEPT ![r] =
                         [IdleRequest EXCEPT !.op = "record_prediction",
                                             !.pc = "suspended",
                                             !.linear = p.linear,
                                             !.lstm = p.lstm]]
           \/ \E a \in RequestReadings :
                  requests' = [requests EXCEPT ![r] =
                      [IdleRequest EXCEPT !.op = "record_actual",
                                          !.pc = "suspended",
                                          !.timestamp = a.timestamp,
                                          !.value = a.value]]
           \/ requests' = [requests EXCEPT ![r] =
                  [IdleRequest EXCEPT !.op = "get_accuracy",
                                      !.pc = "suspended"]]
    /\ UNCHANGED <<doseVars, decayVars, featureVars, serviceVars, isfOut,
                   linearVars, tracker, trackerIn, clock>>

\* A resumed request calls record_prediction.
RequestRecordPrediction ==
    /\ \E r \in RequestIds :
        /\ requests[r].pc = "suspended" /\ requests[r].op = "record_prediction"
        /\ CanRun(r)
        /\ tracker' = record_prediction(tracker, clock, requests[r].linear,
                                        requests[r].lstm)
        /\ requests' = [requests EXCEPT ![r] = IdleRequest]
    /\ UNCHANGED <<doseVars, decayVars, featureVars, serviceVars, isfOut,
                   linearVars, trackerIn, clock>>

\* A resumed request calls get_accuracy.
RequestGetAccuracy ==
    /\ \E r \in RequestIds :
        /\ requests[r].pc = "suspended" /\ requests[r].op = "get_accuracy"
        /\ CanRun(r)
        /\ requests' = [requests EXCEPT ![r] =
               [IdleRequest EXCEPT !.torn = TornState(tracker)]]
    /\ UNCHANGED <<doseVars, decayVars, featureVars, serviceVars, isfOut,
                   linearVars, tracker, trackerIn, clock>>

\* A resumed request calls record_actual: the loop starts.
RequestActualEnters ==
    /\ \E r \in RequestIds :
        /\ requests[r].pc = "suspended" /\ requests[r].op = "record_actual"
        /\ CanRun(r)
        /\ requests' = [requests EXCEPT ![r] =
               NextRecord([requests[r] EXCEPT !.made0 = tracker.made], tracker)]
    /\ UNCHANGED <<doseVars, decayVars, featureVars, serviceVars, isfOut,
                   linearVars, tracker, trackerIn, clock>>

\* record_actual takes predictions[i] from the iterator (which raises when
\* the deque has been appended to since the loop began), skips it when it
\* is evaluated, else runs the if / elif chain on it.
RequestActualFills ==
    /\ \E r \in RequestIds :
        /\ requests[r].pc = "fill"
        /\ CanRun(r)
        /\ IF tracker.made # requests[r].made0
           THEN /\ requests' = [requests EXCEPT ![r] =
                       [IdleRequest EXCEPT !.op = requests[r].op,
                                           !.pc = "raised"]]
                /\ UNCHANGED tracker
           ELSE IF tracker.predictions[requests[r].i].evaluated
           THEN /\ requests' = [requests EXCEPT ![r] =
                                    NextRecord(requests[r], tracker)]
                /\ UNCHANGED tracker
           ELSE /\ tracker' = [tracker EXCEPT
                       !.predictions[requests[r].i] =
                           fill_slot(@, requests[r].timestamp,
                                     requests[r].value)]
                /\ requests' = [requests EXCEPT
                       ![r].pc = "mark",
                       ![r].rec = tracker.predictions[requests[r].i].rec]
    /\ UNCHANGED <<doseVars, decayVars, featureVars, serviceVars, isfOut,
                   linearVars, trackerIn, clock>>

\* record_actual tests whether the record is complete and marks it.
RequestActualMarks ==
    /\ \E r \in RequestIds :
        /\ requests[r].pc = "mark"
        /\ CanRun(r)
        /\ \E n \in {IndexOfRec(tracker, requests[r].rec)} :
            IF n # 0 /\ AllFilled(tracker.predictions[n])
            THEN /\ tracker' = [tracker EXCEPT
                        !.predictions[n].evaluated = TRUE]
                 /\ requests' = [requests EXCEPT ![r].pc = "evaluate"]
            ELSE /\ requests' = [requests EXCEPT ![r] =
                                     NextRecord(requests[r], tracker)]
                 /\ UNCHANGED tracker
    /\ UNCHANGED <<doseVars, decayVars, featureVars, serviceVars, isfOut,
                   linearVars, trackerIn, clock>>

\* record_actual calls _evaluate_record on the record it has marked.
RequestActualEvaluates ==
    /\ \E r \in RequestIds :
        /\ requests[r].pc = "evaluate"
        /\ CanRun(r)
        /\ \E n \in {IndexOfRec(tracker, requests[r].rec)} :
            /\ tracker' = IF n # 0
                          THEN evaluate_record(tracker, tracker.predictions[n],
                                               PoolLimit)
                          ELSE tracker
            /\ requests' = [requests EXCEPT ![r] =
                                NextRecord(requests[r], tracker)]
    /\ UNCHANGED <<doseVars, decayVars, featureVars, serviceVars, isfOut,
                   linearVars, trackerIn, clock>>

----------------------------------------------------------------------------
(* Specifications                                                          *)

DoseIdle  == doseIn = NoDoseIn /\ doseOut = NoDoseOut
DecayIdle == decayIn = NoDecayIn /\ decayOut = NoDecayOut
\* A PredictionService that is not used.
ServiceIdle ==
    /\ env = [models_dir |-> FALSE, bg |-> "missing", isf |-> "missing",
              weights |-> [gain |-> 2, isf_base |-> 30], pandas_strict |-> TRUE]
    /\ service = NoService
    /\ predictIn = NoPredictIn
    /\ predictOut = NoPredictOut
\* A freshly constructed FeatureEngineer.
FeatureInit ==
    /\ glucoseBuffer = <<>>
    /\ treatmentBuffer = <<>>
    /\ pushed = [n |-> 0, bad |-> 0]
    /\ fsIn = NoFsIn
    /\ fsOut = NoSequence

\* A freshly constructed AccuracyTracker and no request in flight.
TrackerIdle ==
    /\ tracker = NoTracker(TrackerMaxRecords)
    /\ trackerIn = NoTrackerIn
    /\ clock = 0
    /\ requests = <<>>
NoLinIn == [glucose_values |-> <<>>, current_bg |-> 0, trend |-> 0]
LinearIdle == linIn = NoLinIn /\ linOut = NoLinOut
IsfIdle == isfOut = NoIsfOut
OthersIdle == TrackerIdle /\ LinearIdle /\ IsfIdle

\* Dose correction applied to every bounded argument tuple.
InitDose ==
    /\ doseIn \in DoseInputs /\ doseOut = NoDoseOut
    /\ DecayIdle /\ FeatureInit /\ ServiceIdle /\ OthersIdle
NextDose == CalculateDoseRecommendation \/ CalculateDoseCorrection
SpecDose == InitDose /\ [][NextDose]_vars

\* calculate_iob / calculate_cob applied to every bounded argument tuple.
InitDecay ==
    /\ DoseIdle /\ decayIn \in DecayInputs /\ decayOut = NoDecayOut
    /\ FeatureInit /\ ServiceIdle /\ OthersIdle
NextDecay == CalculateIob \/ CalculateCob
SpecDecay == InitDecay /\ [][NextDecay]_vars

\* A FeatureEngineer used directly.
InitFeature ==
    DoseIdle /\ DecayIdle /\ FeatureInit /\ ServiceIdle /\ OthersIdle
NextFeature == AddGlucoseReading \/ AddTreatment \/ GetFeatureSequence \/ Clear
SpecFeature == InitFeature /\ [][NextFeature]_vars

\* A PredictionService on each models directory and pandas build.
Init ==
    /\ DoseIdle /\ DecayIdle /\ FeatureInit /\ OthersIdle
    /\ env \in Environments
    /\ service = NoService
    /\ predictIn = NoPredictIn
    /\ predictOut = NoPredictOut
Next == Initialize \/ ServiceAddGlucoseReading \/ ServiceAddTreatment \/ Predict
Spec == Init /\ [][Next]_vars

\* A PredictionService on each pair of model artifacts, its sensitivity
\* estimator used through the service and directly.
InitModels ==
    /\ DoseIdle /\ DecayIdle /\ FeatureInit /\ OthersIdle
    /\ env \in LoadEnvironments
    /\ service = NoService
    /\ predictIn = NoPredictIn
    /\ predictOut = NoPredictOut
NextModels == Initialize \/ SetDefaultIsf \/ Predict \/ GetIsf \/ IsfPredict
SpecModels == InitModels /\ [][NextModels]_vars

\* The module's service: obtained, initialized again and used.
InitSingleton == InitModels
NextSingleton ==
    GetPredictionService \/ InitializeAgain \/ SetDefaultIsf \/ Predict
SpecSingleton == InitSingleton /\ [][NextSingleton]_vars

\* A service predicting and being told what was observed.
NextStats == Predict \/ ServiceRecordActual
SpecStats == InitModels /\ [][NextStats]_vars

\* calculate_iob followed minute by minute over fixed treatments.
InitCurve ==
    /\ DoseIdle /\ decayOut = NoDecayOut
    /\ decayIn \in {d \in DecayInputs : d.at_time = 0 - 10}
    /\ FeatureInit /\ ServiceIdle /\ OthersIdle
NextCurve == CalculateIobLater
SpecCurve == InitCurve /\ [][NextCurve]_vars

\* A LinearPredictor applied to every bounded argument tuple.
InitLinear ==
    /\ DoseIdle /\ DecayIdle /\ FeatureInit /\ ServiceIdle
    /\ TrackerIdle /\ IsfIdle
    /\ linIn \in LinearInputs /\ linOut = NoLinOut
NextLinear == LinearPredict \/ LinearPredictWithTrend
SpecLinear == InitLinear /\ [][NextLinear]_vars

\* An AccuracyTracker whose calls run one after another.
InitLedger ==
    /\ DoseIdle /\ DecayIdle /\ FeatureInit /\ ServiceIdle
    /\ TrackerIdle /\ LinearIdle /\ IsfIdle
NextLedger == Tick \/ RecordPrediction \/ RecordActual
SpecLedger == InitLedger /\ [][NextLedger]_vars

\* The shared AccuracyTracker under requests that arrive concurrently.
InitRequests ==
    /\ DoseIdle /\ DecayIdle /\ FeatureInit /\ ServiceIdle
    /\ LinearIdle /\ IsfIdle
    /\ tracker = NoTracker(TrackerMaxRecords)
    /\ trackerIn = NoTrackerIn
    /\ clock = 0
    /\ requests = [r \in RequestIds |-> IdleRequest]
NextRequests ==
    \/ RequestArrives \/ RequestRecordPrediction \/ RequestGetAccuracy
    \/ RequestActualEnters \/ RequestActualFills \/ RequestActualMarks
    \/ RequestActualEvaluates
SpecRequests == InitRequests /\ [][NextRequests]_vars

----------------------------------------------------------------------------
(* Claims about dose correction (checked under SpecDose)                   *)

DoseActed == doseIn.entry # "none"

DoseEff100 ==
    EffectiveBg100(doseIn.current_bg, doseIn.isf, doseIn.iob100, doseIn.cob10,
                   carb_bg_factor)

\* C4: a dose-correction call with sensitivity <= 0 is rejected by every
\* entry point: it does not raise, returns a dose of 0 and the unmodified
\* current BG as effective BG.
C4_NonPositiveSensitivityRejected ==
    (DoseActed /\ doseIn.isf <= 0) =>
        /\ ~doseOut.raised
        /\ doseOut.dose100 = 0
        /\ doseOut.effective100 = doseIn.current_bg * 100

\* C5 (as claimed): for sensitivity > 0 the dose equals
\* max(0, (effectiveBg - targetBg) / sensitivity), at the two decimals the
\* entry points report, with effectiveBg = currentBg + cob*factor - iob*isf.
C5_DoseEqualsFormula ==
    (DoseActed /\ doseIn.isf > 0) =>
        doseOut.dose100 =
            Max(0, RoundHalfEven(DoseEff100 - doseIn.target_bg * 100, doseIn.isf))

\* The effective BG the entry point divides: calculate_dose_recommendation
\* rounds it to a whole mg/dL first, calculate_dose_correction does not.
DoseEffAsUsed100 ==
    IF doseIn.entry = "iobcob" THEN RoundHalfEven(DoseEff100, 100) * 100
    ELSE DoseEff100

\* C5 (amended): for sensitivity > 0 the dose equals
\* max(0, (E - targetBg) / sensitivity) rounded to two decimals, where E is
\* the effective BG as the entry point uses it (IOBCOBService: rounded to a
\* whole mg/dL); it is never negative, it is 0 whenever effectiveBg <=
\* targetBg, and the two worked examples give 2.0 / 200 and 1.0 / 150.
C5_DoseFromEffectiveBgAsUsed ==
    (DoseActed /\ doseIn.isf > 0) =>
        /\ ~doseOut.raised
        /\ doseOut.dose100 =
               Max(0, RoundHalfEven(DoseEffAsUsed100 - doseIn.target_bg * 100,
                                    doseIn.isf))
        /\ doseOut.dose100 >= 0
        /\ (DoseEff100 <= doseIn.target_bg * 100 => doseOut.dose100 = 0)
        /\ ( /\ doseIn.current_bg = 200 /\ doseIn.target_bg = 100
             /\ doseIn.isf = 50 /\ doseIn.cob10 = 0
             => /\ doseIn.iob100 = 0
                    => doseOut.dose100 = 200 /\ doseOut.effective100 = 20000
                /\ doseIn.iob100 = 100
                    => doseOut.dose100 = 100 /\ doseOut.effective100 = 15000 )

\* A positive-sensitivity call of calculate_dose_recommendation whose
\* effective BG is fractional and above target returned a positive dose.
C5_Witness ==
    /\ doseIn.entry = "iobcob"
    /\ doseIn.isf > 0
    /\ DoseEff100 % 100 # 0
    /\ doseOut.dose100 > 0

\* C6: when effectiveBg is below targetBg the output carries the negative
\* raw correction together with the clamped dose of 0.
C6_NegativeRawCorrectionCarried ==
    (DoseActed /\ doseIn.isf > 0 /\ DoseEff100 < doseIn.target_bg * 100) =>
        /\ doseOut.hasRaw
        /\ doseOut.raw100 < 0
        /\ doseOut.dose100 = 0

----------------------------------------------------------------------------
(* Claims about IOB / COB (checked under SpecDecay)                        *)

DecayActed == decayIn.kind # "none"

DecayAmount(t) == IF decayIn.kind = "iob" THEN t.insulin100 ELSE t.carbs10
DecayDuration ==
    IF decayIn.kind = "iob" THEN insulin_duration_min ELSE carb_duration_min
DecayElapsed(i) == decayIn.at_time - decayIn.treatments[i].ts

\* C7: calculate_iob / calculate_cob return 0 for an empty list and when
\* every treatment is older than the action duration or lies in the future;
\* a treatment at exactly elapsed = duration still contributes.
C7_HardCutoffWindow ==
    DecayActed =>
        /\ decayIn.treatments = <<>> => decayOut.value = 0
        /\ (\A i \in DOMAIN decayIn.treatments :
                DecayElapsed(i) < 0 \/ DecayElapsed(i) > DecayDuration)
           => decayOut.value = 0
        /\ (\E i \in DOMAIN decayIn.treatments :
                /\ DecayElapsed(i) = DecayDuration
                /\ DecayAmount(decayIn.treatments[i]) > 0)
           => decayOut.value > 0
        /\ decayOut.value >= 0

\* calculate_iob evaluated exactly 180 minutes after a single bolus.
C7_Witness ==
    /\ decayIn.kind = "iob"
    /\ Len(decayIn.treatments) = 1
    /\ DecayElapsed(1) = insulin_duration_min
    /\ decayIn.treatments[1].insulin100 > 0
    /\ decayOut.value > 0

----------------------------------------------------------------------------
(* Claims about the FeatureBuffer (checked under SpecFeature)              *)

\* Buffered readings whose timestamp parses.
UsableReadings ==
    Cardinality({i \in DOMAIN glucoseBuffer : glucoseBuffer[i].ts # NoTs})

C9_IobFeatureIsCallerValue ==
    (fsIn.called /\ fsOut.kind = "seq") =>
        \A i \in DOMAIN fsOut.rows : fsOut.rows[i].iob3600 = fsIn.iob100 * 36

----------------------------------------------------------------------------
(* Claims about PredictionService.predict (checked under Spec)             *)

\* The sequence the feature engineer holds after the call builds: predict
\* leaves in the buffers what it built its sequence from.
SequenceOfCall ==
    get_feature_sequence(glucoseBuffer, treatmentBuffer, predictIn.iob100,
                         SEQ_LENGTH, env.pandas_strict)

\* The forecast of the trend extrapolator for the arguments of the call.
LinearOfCall ==
    IF predictIn.history.n >= 2
    THEN LinearPredictor_predict(GlucoseValues(HistoryOf(predictIn.history)))
    ELSE predict_with_trend(predictIn.current_bg, predictIn.trend)

\* C1: a result is tagged "lstm" only if in that call the glucose model was
\* loaded, a feature sequence was built and the model returned a prediction
\* for it (the one reported); in every other case the tag is "linear" and
\* the lstm field is null.
C1_LstmOnlyWhenSequencePathSucceeded ==
    predictIn.called =>
        /\ predictOut.method = "lstm" =>
               /\ lstm_available(service)
               /\ predictOut.sequence = "seq"
               /\ SequenceOfCall.kind = "seq"
               /\ predictOut.bg_result = "some"
               /\ predictOut.lstm # Null
               /\ predictOut.lstm =
                      BGInferenceService_predict(service.bg, SequenceOfCall,
                                                 env.weights)
        /\ predictOut.method # "lstm" =>
               /\ predictOut.method = "linear"
               /\ predictOut.lstm = Null

\* A call answered by the sequence model.
C1_Witness ==
    /\ predictIn.called
    /\ predictOut.method = "lstm"
    /\ Len(predictOut.lstm) = 3

\* C2: predict never raises because of the sequence path; when the glucose
\* model is unavailable, no sequence could be built, or building or
\* inference threw, the result carries the three values of the trend
\* extrapolator and is tagged "linear".
C2_SequenceFailureFallsBackToLinear ==
    predictIn.called =>
        /\ ~predictOut.raised
        /\ Len(predictOut.linear) = 3
        /\ predictOut.linear = LinearOfCall
        /\ ( \/ ~predictOut.lstm_available
             \/ predictOut.failed
             \/ predictOut.sequence # "seq"
             \/ predictOut.bg_result # "some" )
               => predictOut.method = "linear"

\* A call whose sequence path threw and that was answered from the trend
\* extrapolator.
C2_Witness ==
    /\ predictIn.called
    /\ predictOut.lstm_available
    /\ predictOut.failed
    /\ ~predictOut.raised
    /\ predictOut.method = "linear"
    /\ predictOut.linear = LinearOfCall

\* C3: two predict calls with identical arguments return identical linear,
\* lstm, isf and method, whatever was called on the service before each.
\* (predictIn is unchanged by a step only if the step is a predict call with
\* the arguments of the previous one, or no predict call at all.)
C3_ResultDependsOnArgumentsOnly ==
    [][(predictIn.called /\ predictIn' = predictIn) =>
          /\ predictOut'.linear = predictOut.linear
          /\ predictOut'.lstm = predictOut.lstm
          /\ predictOut'.isf = predictOut.isf
          /\ predictOut'.method = predictOut.method]_vars

\* C10: when the feature list the glucose model was loaded with differs from
\* the columns of the built sequence, the model is not run on that sequence
\* and the call carries no sequence prediction.
C10_MismatchedColumnsNeverRun ==
    (predictIn.called /\ service.bg.feature_columns # BG_FEATURE_COLUMNS) =>
        /\ predictOut.bg_result # "some"
        /\ predictOut.lstm = Null

----------------------------------------------------------------------------
(* Claims about the AccuracyLedger (checked under SpecLedger)              *)

\* A step that is a record_actual call (or leaves everything as it is).
RecordActualCall ==
    /\ trackerIn'.op = "record_actual"
    /\ clock' = clock
    /\ tracker'.made = tracker.made

\* age lies in the tolerance band of horizon k: [4,6], [9,11], [14,16].
InBand(k, age) == 5 * k - 1 <= age /\ age <= 5 * k + 1

SlotsChanged(old, new) == {k \in 1..3 : new.actual[k] # old.actual[k]}

\* C11: record_actual fills a slot of a record that is not yet evaluated
\* exactly when the actual's age relative to the record's creation lies in
\* that slot's band and the slot is empty; the slot then holds the actual's
\* value, at most one slot of a record changes, a filled slot keeps its
\* value, and a record whose age lies outside all bands is left as it was.
C11_ActualFillsMatchingEmptySlot ==
    [][RecordActualCall =>
        \A i \in DOMAIN tracker.predictions :
            LET old == tracker.predictions[i]
                new == tracker'.predictions[i]
                age == trackerIn'.timestamp - old.timestamp
            IN  ~old.evaluated =>
                /\ \A k \in 1..3 :
                       k \in SlotsChanged(old, new)
                           <=> (InBand(k, age) /\ old.actual[k] = NoActual)
                /\ \A k \in SlotsChanged(old, new) :
                       new.actual[k] = trackerIn'.value
                /\ Cardinality(SlotsChanged(old, new)) <= 1
                /\ \A k \in 1..3 :
                       old.actual[k] # NoActual => new.actual[k] = old.actual[k]
                /\ (\A k \in 1..3 : ~InBand(k, age)) => new = old]_vars

\* The actual of minute 10 has filled the 10-minute slot of a record made at
\* 0 and the 5-minute slot of a record made at 5, whose other slots stay empty.
C11_Witness ==
    /\ trackerIn.op = "record_actual" /\ trackerIn.timestamp = 10
    /\ Len(tracker.predictions) = 2
    /\ tracker.predictions[1].timestamp = 0
    /\ tracker.predictions[1].actual = <<100, 115, NoActual>>
    /\ tracker.predictions[2].timestamp = 5
    /\ tracker.predictions[2].actual = <<115, NoActual, NoActual>>

ThreeActuals(record) ==
    /\ record.actual[1] # NoActual
    /\ record.actual[2] # NoActual
    /\ record.actual[3] # NoActual

\* C12: every retained record is evaluated if and only if its three actual
\* slots are filled, and no call changes a record that is already evaluated.
C12_EvaluatedIffThreeActuals ==
    /\ [](\A i \in DOMAIN tracker.predictions :
              tracker.predictions[i].evaluated
                  <=> ThreeActuals(tracker.predictions[i]))
    /\ [][\A i \in DOMAIN tracker.predictions :
              \A j \in DOMAIN tracker'.predictions :
                  (/\ tracker.predictions[i].rec = tracker'.predictions[j].rec
                   /\ tracker.predictions[i].evaluated)
                  => tracker'.predictions[j] = tracker.predictions[i]]_vars

\* An evaluated record made at 0 whose 5-minute slot holds the actual of
\* minute 4, after the actual of minute 6 (also in that band) was recorded.
C12_Witness ==
    /\ trackerIn.op = "record_actual" /\ trackerIn.timestamp = 6
    /\ \E i \in DOMAIN tracker.predictions :
           /\ tracker.predictions[i].evaluated
           /\ tracker.predictions[i].timestamp = 0
           /\ tracker.predictions[i].actual = <<100, 115, 115>>

LogRecs == {tracker.log[i].rec : i \in DOMAIN tracker.log}

\* The records that turn evaluated in a step.
NewlyEvaluated ==
    {j \in DOMAIN tracker'.predictions :
        /\ tracker'.predictions[j].evaluated
        /\ \E i \in DOMAIN tracker.predictions :
               /\ tracker.predictions[i].rec = tracker'.predictions[j].rec
               /\ ~tracker.predictions[i].evaluated}

\* C13: a record's errors enter the pools at most once, in the call that
\* evaluates it; a record with an empty slot, retained or evicted by the
\* deque, has no entry however many actuals follow.
C13_ContributesOnceWhenEvaluated ==
    /\ [](/\ \A i, j \in DOMAIN tracker.log :
                 tracker.log[i].rec = tracker.log[j].rec => i = j
          /\ \A i \in DOMAIN tracker.predictions :
                 ~ThreeActuals(tracker.predictions[i])
                     => tracker.predictions[i].rec \notin LogRecs
          /\ tracker.evicted_open \cap LogRecs = {}
          /\ Len(tracker.linear_errors) = Min(PoolLimit, Len(tracker.log)))
    /\ [][/\ Len(tracker'.log) = Len(tracker.log) + Cardinality(NewlyEvaluated)
          /\ SubSeq(tracker'.log, 1, Len(tracker.log)) = tracker.log
          /\ \A j \in NewlyEvaluated :
                 \E n \in (Len(tracker.log) + 1)..Len(tracker'.log) :
                     tracker'.log[n].rec = tracker'.predictions[j].rec]_vars

\* A record was evicted with an empty slot, another record has been
\* evaluated, and an actual has been recorded since.
C13_Witness ==
    /\ tracker.evicted_open # {}
    /\ tracker.log # <<>>
    /\ trackerIn.op = "record_actual" /\ trackerIn.timestamp = 20
    /\ \E i \in DOMAIN tracker.predictions :
           ~tracker.predictions[i].evaluated
           /\ tracker.predictions[i].actual[1] # NoActual

ErrSum(predicted, actual) ==
    Abs(predicted[1] - actual[1]) + Abs(predicted[2] - actual[2])
        + Abs(predicted[3] - actual[3])

LstmCredited(record) ==
    /\ record.lstm # Null
    /\ ErrSum(record.lstm, record.actual) < ErrSum(record.linear, record.actual)
LinearCredited(record) ==
    /\ record.lstm # Null
    /\ ErrSum(record.lstm, record.actual) >= ErrSum(record.linear, record.actual)

\* C14: each evaluation of a record with sequence predictions increments
\* exactly one win count, that of the method with the lower mean absolute
\* error over the three horizons (linear when they are equal); a record
\* without sequence predictions changes neither; the counts never decrease,
\* and total_comparisons = linear_wins + lstm_wins = the number of
\* evaluations so far of records with sequence predictions, whatever the
\* pools have been trimmed to.
C14_WinCountsFollowEvaluations ==
    /\ [](/\ get_accuracy(tracker).total_comparisons
                 = tracker.linear_wins + tracker.lstm_wins
          /\ tracker.linear_wins + tracker.lstm_wins
                 = Cardinality({i \in DOMAIN tracker.log :
                                    tracker.log[i].has_lstm}))
    /\ [][/\ tracker'.lstm_wins - tracker.lstm_wins
                 = Cardinality({j \in NewlyEvaluated :
                                    LstmCredited(tracker'.predictions[j])})
          /\ tracker'.linear_wins - tracker.linear_wins
                 = Cardinality({j \in NewlyEvaluated :
                                    LinearCredited(tracker'.predictions[j])})]_vars

\* Three records have been evaluated, one of them without sequence
\* predictions; each method has won one, and the pools have been trimmed.
C14_Witness ==
    /\ Len(tracker.log) = 3
    /\ Len(tracker.log) > Len(tracker.linear_errors)
    /\ \E i \in DOMAIN tracker.log : ~tracker.log[i].has_lstm
    /\ tracker.linear_wins = 1
    /\ tracker.lstm_wins = 1

----------------------------------------------------------------------------
(* Claims about concurrent requests on the tracker (checked under          *)
(* SpecRequests)                                                           *)

----------------------------------------------------------------------------
(* Claims about the sensitivity estimator and model loading (checked under *)
(* SpecModels)                                                             *)

----------------------------------------------------------------------------
(* Claims about the TrendExtrapolator (checked under SpecLinear)           *)

\* C18: predict and predict_with_trend do not raise, whatever the list of
\* values (the empty list included) and the trend code; with fewer than two
\* values predict returns slope 0 and the last value at every horizon (100
\* when there is none).
C18_LinearPredictorNeverRaises ==
    linOut.op # "none" =>
        /\ ~linOut.raised
        /\ Len(linOut.predictions) = 3
        /\ (linOut.op = "predict" /\ Len(linIn.glucose_values) = 1) =>
               /\ linOut.slope1000 = 0
               /\ \A k \in 1..3 :
                      linOut.predictions[k] = 100 * linIn.glucose_values[1]
        /\ (linOut.op = "predict" /\ linIn.glucose_values = <<>>) =>
               /\ linOut.slope1000 = 0
               /\ linOut.predictions = <<10000, 10000, 10000>>

\* predict has returned on the empty list.
C18_Witness ==
    /\ linOut.op = "predict" /\ linIn.glucose_values = <<>>
    /\ linOut.predictions = <<10000, 10000, 10000>>

HorizonMinutes(k) == 5 * k
ClampedHundredths(x) ==
    IF x < 40 THEN 4000 ELSE IF x > 400 THEN 40000 ELSE 100 * x

\* C19: for a trend code in -3..3 predict_with_trend returns, for the
\* horizons 5, 10 and 15, current_bg + trend * horizon clamped to [40, 400];
\* (120, 0) gives [120, 120, 120].
C19_TrendCodeExtrapolation ==
    (linOut.op = "predict_with_trend" /\ linIn.trend \in (0 - 3)..3) =>
        /\ \A k \in 1..3 :
               linOut.predictions[k]
                   = ClampedHundredths(linIn.current_bg
                                       + linIn.trend * HorizonMinutes(k))
        /\ (linIn.current_bg = 120 /\ linIn.trend = 0)
               => linOut.predictions = <<12000, 12000, 12000>>

\* predict_with_trend(390, 2): 400 (clamped from 410 and 420) after the
\* unclamped first horizon would have been 400.
C19_Witness ==
    /\ linOut.op = "predict_with_trend"
    /\ linIn.current_bg = 390 /\ linIn.trend = 2
    /\ linOut.predictions = <<40000, 40000, 40000>>

\* The common difference of a straight series of at least two values.
IsStraight(y) ==
    /\ Len(y) >= 2
    /\ \A i \in 1..(Len(y) - 1) : y[i + 1] - y[i] = y[2] - y[1]

\* C20: on a straight series with difference d per 5-minute sample predict
\* returns the slope d / 5 mg/dL per minute and last + d, last + 2d and
\* last + 3d, each clamped to [40, 400]; [100, 105, ..., 125] gives 130,
\* 135, 140 with slope 1.
C20_StraightSeriesExtrapolated ==
    (linOut.op = "predict" /\ IsStraight(linIn.glucose_values)) =>
        LET y == linIn.glucose_values
            d == y[2] - y[1]
        IN  /\ linOut.slope1000 = 200 * d
            /\ \A k \in 1..3 :
                   linOut.predictions[k] = ClampedHundredths(y[Len(y)] + d * k)

\* predict on [100, 105, 110, 115, 120, 125] has returned 130, 135, 140.
C20_Witness ==
    /\ linOut.op = "predict"
    /\ linIn.glucose_values = <<100, 105, 110, 115, 120, 125>>
    /\ linOut.predictions = <<13000, 13500, 14000>>
    /\ linOut.slope1000 = 1000

----------------------------------------------------------------------------
(* Claims about the decay curve (checked under SpecCurve and SpecDecay)    *)

\* C21: calculate_iob never returns a negative value, and for a single
\* insulin event a call at a later evaluation time, from the event time
\* onward, never returns more than the call before it.
C21_IobNonNegativeNonIncreasing ==
    /\ [](DecayActed => decayOut.value >= 0)
    /\ [][(/\ decayIn.kind = "iob"
           /\ Len(decayIn.treatments) = 1
           /\ decayIn.at_time >= decayIn.treatments[1].ts)
          => decayOut'.value <= decayOut.value]_vars

\* A single 4.00 U bolus followed to the minute after its cutoff.
C21_Witness ==
    /\ decayIn.kind = "iob"
    /\ Len(decayIn.treatments) = 1
    /\ decayIn.treatments[1].insulin100 = 400
    /\ DecayElapsed(1) = insulin_duration_min + 1
    /\ decayOut.value = 0

----------------------------------------------------------------------------
(* Further claims about PredictionService.predict (checked under Spec)     *)

InGlucoseRange(preds) ==
    \A k \in DOMAIN preds : 4000 <= preds[k] /\ preds[k] <= 40000

\* C23: every horizon value of a returned PredictionResult, in the linear
\* list and in the lstm list when there is one, lies in [40, 400] mg/dL,
\* whether it came from the line fit, the trend arrow or the glucose model.
C23_ForecastsInGlucoseRange ==
    (predictIn.called /\ ~predictOut.raised) =>
        /\ Len(predictOut.linear) = 3
        /\ InGlucoseRange(predictOut.linear)
        /\ predictOut.lstm # Null =>
               (Len(predictOut.lstm) = 3 /\ InGlucoseRange(predictOut.lstm))

\* A history above 400 mg/dL: both the line fit and the glucose model are
\* held at 400.
C23_Witness ==
    /\ predictIn.called
    /\ predictIn.history.level = 390
    /\ predictOut.method = "lstm"
    /\ predictOut.lstm = <<40000, 40000, 40000>>
    /\ predictOut.linear = <<40000, 40000, 40000>>

----------------------------------------------------------------------------
(* Claims about the module's service (checked under SpecSingleton)         *)

\* C24: once the service is initialized no step changes its model objects
\* or its availability flags: not initialize called again, not
\* get_prediction_service naming another directory, not a predict whose
\* sequence path fails.
C24_InitializedServiceFrozen ==
    [][service.initialized =>
          /\ service'.initialized
          /\ service'.bg = service.bg
          /\ [service'.isf EXCEPT !.default_isf = 0]
                 = [service.isf EXCEPT !.default_isf = 0]
          /\ lstm_available(service') = lstm_available(service)
          /\ isf_available(service') = isf_available(service)]_vars

\* A predict whose sequence path failed has returned and the glucose model
\* is still available.
C24_Witness ==
    /\ service.initialized
    /\ predictIn.called /\ predictOut.failed
    /\ lstm_available(service)

----------------------------------------------------------------------------
(* Further claims about the FeatureBuffer (checked under SpecFeature)      *)

\* C25: the glucose buffer never holds more than history_min / sampling_min
\* samples (36 for the default 180 minutes), and what it holds are the
\* samples added last, in the order they were added.
C25_BufferKeepsLatestReadings ==
    LET max_readings == MaxReadings(FeatureHistoryMin)
        kept == Len(glucoseBuffer)
    IN  /\ MaxReadings(default_history_min) = 36
        /\ kept = Min(pushed.n, max_readings)
        /\ \A i \in 1..kept :
               glucoseBuffer[i].value
                   = StreamReading(pushed.n - kept + i - 1, TRUE).value

\* Two readings more than the buffer holds have been added: the first two
\* are gone.
C25_Witness ==
    /\ pushed.n = MaxReadings(FeatureHistoryMin) + 2
    /\ Len(glucoseBuffer) = MaxReadings(FeatureHistoryMin)
    /\ glucoseBuffer[1].value = StreamReading(2, TRUE).value

----------------------------------------------------------------------------
(* Further claims about the AccuracyLedger (checked under SpecLedger)      *)

\* What a pool of `limit` entries looks like after `added` entries were
\* appended to `before`: no longer than limit, its first entries the newest
\* of `before` in their order.
PoolAdvanced(before, after, added, limit) ==
    LET kept == Max(0, Min(limit, Len(before) + added) - added)
    IN  /\ Len(after) = Min(limit, Len(before) + added)
        /\ SubSeq(after, 1, kept)
               = SubSeq(before, Len(before) - kept + 1, Len(before))

\* C26: the tracker holds at most max_records records, the ones made last
\* in the order they were made, and each pool holds at most its limit of
\* entries (500 in the code), a call dropping the oldest entries of a pool
\* and keeping the order of the others.
C26_RecordsAndPoolsBounded ==
    /\ [](/\ Len(tracker.predictions) = Min(tracker.made, tracker.max_records)
          /\ \A i \in DOMAIN tracker.predictions :
                 tracker.predictions[i].rec
                     = tracker.made - Len(tracker.predictions) + i
          /\ Len(tracker.linear_errors) <= PoolLimit
          /\ Len(tracker.lstm_errors) <= PoolLimit)
    /\ [][LET new == SubSeq(tracker'.log, Len(tracker.log) + 1,
                            Len(tracker'.log))
              with_lstm == {i \in DOMAIN new : new[i].has_lstm}
          IN  /\ PoolAdvanced(tracker.linear_errors, tracker'.linear_errors,
                              Len(new), PoolLimit)
              /\ PoolAdvanced(tracker.lstm_errors, tracker'.lstm_errors,
                              Cardinality(with_lstm), PoolLimit)]_vars

\* One record more than the deque holds was made and one evaluation more
\* than a pool holds was done.
C26_Witness ==
    /\ tracker.made = TrackerMaxRecords + 1
    /\ Len(tracker.predictions) = TrackerMaxRecords
    /\ Len(tracker.log) = PoolLimit + 1
    /\ Len(tracker.linear_errors) = PoolLimit
    /\ tracker.linear_errors[1] # tracker.linear_errors[2]

----------------------------------------------------------------------------
(* Claims about the order of the history (checked under Spec)              *)

\* The history of a call as the sensor produced it, oldest first.
Chronological(shape) == HistoryOf([shape EXCEPT !.order = "asc"])

\* C27: predict works from the latest samples by timestamp, in whichever
\* order the history is given: the line is fitted over the last
\* history_points samples in chronological order, so a rising series gives
\* forecasts above its latest value, and the feature buffer a sequence
\* attempt leaves behind holds the latest samples.
C27_ForecastFromLatestSamples ==
    (/\ predictIn.called /\ ~predictOut.raised
     /\ predictIn.history.n >= 2 /\ predictIn.history.bad = 0)
    => LET chrono == Chronological(predictIn.history)
           latest == chrono[Len(chrono)].value
           kept == Min(Len(chrono), MaxReadings(default_history_min))
       IN  /\ predictOut.linear
                  = LinearPredictor_predict(GlucoseValues(chrono))
           /\ \A k \in 1..3 : predictOut.linear[k] >= Min(40000, 100 * latest)
           /\ (predictOut.lstm_available /\ pushed.n = 0)
                  => SeqToSet(glucoseBuffer)
                         = SeqToSet(SubSeq(chrono, Len(chrono) - kept + 1,
                                           Len(chrono)))

----------------------------------------------------------------------------
(* Claims about treatment alignment (checked under SpecFeature)            *)

\* The buffered treatments that have a timestamp, and the readings that do.
TimedTreatments == SelectSeq(treatmentBuffer, HasTs)
TimedReadings == SelectSeq(glucoseBuffer, HasTs)

\* C28: every buffered treatment with a timestamp has its insulin and its
\* carbs, protein and fat added to the grid, so that the grid's totals are
\* the totals over those treatments, a treatment carrying both insulin and
\* carbs included.  Read off a returned sequence that spans the whole grid.
C28_TreatmentsFullyAligned ==
    (/\ fsIn.called /\ fsOut.kind = "seq"
     /\ Len(fsOut.rows) = Len(TimedReadings))
    => /\ SumSeq([i \in DOMAIN fsOut.rows |-> fsOut.rows[i].insulin100])
              = SumSeq([i \in DOMAIN TimedTreatments |->
                           AmountOrZero(TimedTreatments[i].insulin100)])
       /\ SumSeq([i \in DOMAIN fsOut.rows |-> fsOut.rows[i].carbs10])
              = SumSeq([i \in DOMAIN TimedTreatments |->
                           AmountOrZero(TimedTreatments[i].carbs10)])
       /\ SumSeq([i \in DOMAIN fsOut.rows |-> fsOut.rows[i].protein10])
              = SumSeq([i \in DOMAIN TimedTreatments |->
                           AmountOrZero(TimedTreatments[i].protein10)])

----------------------------------------------------------------------------
(* Claims about ties (checked under SpecLedger)                            *)

Tied(record) ==
    /\ record.lstm # Null
    /\ ErrSum(record.lstm, record.actual) = ErrSum(record.linear, record.actual)

\* C29: a record whose two mean absolute errors are equal is credited to
\* linear_wins and not to lstm_wins, and get_accuracy names "lstm" the
\* winner only with a non-empty sequence pool whose overall mean absolute
\* error is strictly below that of the linear pool.
C29_TiesGoToLinear ==
    /\ [](get_accuracy(tracker).winner = "lstm" =>
              /\ tracker.lstm_errors # <<>>
              /\ PoolSum(tracker.lstm_errors) * Len(tracker.linear_errors)
                     < PoolSum(tracker.linear_errors) * Len(tracker.lstm_errors))
    /\ [][LET tied == {j \in NewlyEvaluated : Tied(tracker'.predictions[j])}
              untied == {j \in NewlyEvaluated :
                            /\ tracker'.predictions[j].lstm # Null
                            /\ ~Tied(tracker'.predictions[j])}
          IN  /\ tracker'.linear_wins - tracker.linear_wins >= Cardinality(tied)
              /\ tracker'.lstm_wins - tracker.lstm_wins <= Cardinality(untied)]_vars

\* A tied record went to linear, another was won by the sequence model, and
\* get_accuracy names "lstm" the winner.
C29_Witness ==
    /\ \E i \in DOMAIN tracker.predictions :
           tracker.predictions[i].evaluated /\ Tied(tracker.predictions[i])
    /\ Len(tracker.log) = 2
    /\ tracker.linear_wins = 1
    /\ tracker.lstm_wins = 1
    /\ get_accuracy(tracker).winner = "lstm"

----------------------------------------------------------------------------
(* Claims about the service's accuracy statistics (checked under SpecStats) *)

CallsNaming(method) ==
    Cardinality({i \in DOMAIN service.actuals : service.actuals[i] = method})

\* C30: after record_actual has been called with the values observed for an
\* earlier prediction, get_accuracy_stats reflects them: the error count of
\* the method named has grown with every call, and a method with recorded
\* errors has a mean over them.
C30_RecordedActualsReachStats ==
    LET stats == get_accuracy_stats(service)
    IN  /\ stats.linear_count >= CallsNaming("linear")
        /\ stats.lstm_count >= CallsNaming("lstm")
        /\ CallsNaming("lstm") > 0 => stats.lstm_mae # NoAmount

====
